---- MODULE Spec2Model ----
(***************************************************************************)
(* A model of wa-modules-loader's export pipeline (src/export).            *)
(*                                                                         *)
(* Source text is a sequence of one-character strings; offsets are the     *)
(* code's 0-based offsets, so source[i] of the code is At(source, i).      *)
(***************************************************************************)
EXTENDS Integers, Sequences, FiniteSets, TLC

VARIABLES
    source,     \* extractDCalls: the bundle text being scanned
    cursor,     \* extractDCalls: the loop variable i
    out,        \* extractDCalls: the strings pushed so far
    calls,      \* history: one record per marker findNextDCallStart returned
    spc,        \* extractDCalls: "loop" while the while-loop runs, "done" after return
    items,      \* runWithConcurrency: items.length (the items are 0..items-1)
    limit2,     \* runWithConcurrency: twice the limit argument (limits are halves)
    nextIdx,    \* runWithConcurrency: the shared counter nextIdx
    inflight,   \* runWithConcurrency: the items whose worker() promise is pending
    invoked,    \* history: how often worker() was called for each item
    rwState,    \* runWithConcurrency: "idle" before the call, then the state of
                \* the promise it returned: "pending", "resolved" or "rejected"
    bundle,       \* buildExportFiles: bundleContent
    disambiguate, \* buildExportFiles: opts.disambiguate !== false
    dCalls,       \* buildExportFiles: calls, the result of extractDCalls
    callIdx,      \* buildExportFiles: how many calls the for-loop has handled
    count,        \* buildExportFiles: the counter of synthetic names
    usedNames,    \* buildExportFiles: the map usedNames (unused without disambiguate)
    files,        \* buildExportFiles: out, the ExportFiles pushed so far
    bpc,          \* buildExportFiles: "start", "loop" or "done"
    toIa,                \* buildExportFiles: opts.toIa === true
    mergeCommonNames,    \* buildExportFiles: opts.mergeCommonNames === true
    mergeCommonPrefixes, \* buildExportFiles: opts.mergeCommonPrefixes ?? null
    mergePrefixes,       \* buildExportFiles: the prefixes the files are grouped by
    workerCount,   \* WorkerPool: this.workers.length
    nextWorkerIdx, \* WorkerPool: this.nextWorkerIdx
    nextTaskId,    \* WorkerPool: this.nextTaskId
    tasks,         \* WorkerPool: the ids in the map this.tasks
    promise,       \* per request: the promise p of process(): "none" before the
                   \* call, then "pending", "resolved" or "rejected"
    chain,         \* per request: the task's writeChain
    inbox,         \* per worker: the requests posted to it and not yet received
    port,          \* per worker: the messages it posted, not yet seen by onMessage
    crash,         \* per worker: "no", "raised" (its 'error' event is due) or "handled"
    request,       \* per request: the worker it was posted to and its file count
    handler,       \* per request: the worker's handler: "none", "queued", "running",
                   \* "finished" or "lost" (the worker ended before it answered)
    posted,        \* history: per request, the kinds of the messages posted for it
    ledger,        \* history: per request, the files received in chunks, the files
                   \* taken by a runner, the writes that failed, and whether
                   \* 'done' arrived while the chain was pending
    cause,         \* history: per request, what rejected its promise
    usePool,       \* run: pool !== null
    epc,           \* run: "build" while buildExportFiles runs, "posted" once the
                   \* worker answered, "returned" when run has returned
    wire,          \* run: the worker's messages that onMessage has not seen yet
    report,        \* run: the lines written to the console
    written,       \* run: the number of files written under outputDir
    urls,          \* run, .json input: the URLs of the input file
    mergeNames,    \* run, .json input: --merge-common-names is given
    flat,          \* run, .json input: --flat or --no-subdirs is given
    usedDirs,      \* run, .json input: the map usedDirs
    jobs,          \* run, .json input: the outDir of the jobs mapped so far
    jpc,           \* run, .json input: "map" while urls.map runs, then "mapped"
    hFiles,        \* handle: files, the ExportFiles of the request
    hNext,         \* handle: how many files the for-loop has handled
    hBatch,        \* handle: batch
    hPosted,       \* handle: the messages posted to parentPort so far
    hpc,           \* handle: "loop", "flush" (the flush after the loop), "done"
    regMap,        \* ModuleRegistry: this.map, as the sequence of its entries
    regLoading,    \* ModuleRegistry: the registerAsync calls awaiting their value
    regExpected,   \* history: per name, the value of the last registration
                   \* that completed (registerValue, or registerAsync after
                   \* unwrapping)
    regLast,       \* history: the last require, if no registration followed it
    raModules,     \* registerAll: modules, each entry with its name and
                   \* whether its file can be read and holds a function
    raNext,        \* registerAll: how many entries the for-loop has handled
    raBefore,      \* history: the names registered when registerAll was called
    rapc,          \* registerAll: "idle", "shims", "modules", "done", "failed"
    rqDeps,        \* per module: the names its factory requires, in order
    rqThrows,      \* per module: how many executions of its factory throw
                   \* before one returns
    rqStack,       \* require: the factories being executed, innermost last,
                   \* each with the number of its next require call
    rqRuns,        \* history: per module, how often its factory was called
    rqGot          \* history: the outcomes of the caller's require calls

scanVars == <<source, cursor, out, calls, spc>>
runVars  == <<items, limit2, nextIdx, inflight, invoked, rwState>>

buildVars == <<bundle, disambiguate, dCalls, callIdx, count, usedNames, files, bpc,
               toIa, mergeCommonNames, mergeCommonPrefixes, mergePrefixes>>

poolVars == <<workerCount, nextWorkerIdx, nextTaskId, tasks, promise, chain, inbox,
              port, crash, request, handler, posted, ledger, cause>>

exportVars == <<usePool, epc, wire, report, written>>

jobVars == <<urls, mergeNames, flat, usedDirs, jobs, jpc>>

handleVars == <<hFiles, hNext, hBatch, hPosted, hpc>>

loadVars == <<raModules, raNext, raBefore, rapc>>

reqVars == <<rqDeps, rqThrows, rqStack, rqRuns, rqGot>>

regVars == <<regMap, regLoading, regExpected, regLast, loadVars, reqVars>>

vars == <<scanVars, runVars, buildVars, poolVars, exportVars, jobVars, handleVars,
          regVars>>

\* what the actions of one component leave alone
nonScanVars   == <<runVars, buildVars, poolVars, exportVars, jobVars, handleVars, regVars>>
nonRunVars    == <<scanVars, buildVars, poolVars, exportVars, jobVars, handleVars, regVars>>
nonBuildVars  == <<scanVars, runVars, poolVars, exportVars, jobVars, handleVars, regVars>>
nonPoolVars   == <<scanVars, runVars, buildVars, exportVars, jobVars, handleVars, regVars>>
nonJobVars    == <<scanVars, runVars, buildVars, poolVars, exportVars, handleVars, regVars>>
nonExportVars == <<scanVars, runVars, buildVars, poolVars, jobVars, handleVars, regVars>>
nonHandleVars == <<scanVars, runVars, buildVars, poolVars, exportVars, jobVars,
                   regVars>>
nonRegVars    == <<scanVars, runVars, buildVars, poolVars, exportVars, jobVars,
                   handleVars>>

(***************************************************************************)
(* Characters                                                              *)
(***************************************************************************)
Letters ==
    {"a","b","c","d","e","f","g","h","i","j","k","l","m","n","o","p","q","r",
     "s","t","u","v","w","x","y","z","A","B","C","D","E","F","G","H","I","J",
     "K","L","M","N","O","P","Q","R","S","T","U","V","W","X","Y","Z"}

Digits == {"0","1","2","3","4","5","6","7","8","9"}

\* Characters that a TLA+ string cannot hold verbatim are named.
DoubleQuote == "dquote"
Backslash   == "backslash"
Newline     == "newline"
Tab         == "tab"
SingleQuote == "squote"
Backtick    == "backtick"

\* /\s/
IsSpace(c) == c \in {" ", Newline, Tab}

\* /[\w$]/
IsWordOrDollar(c) == c \in Letters \cup Digits \cup {"_", "$"}

\* /[\)\]\}]/
IsCloser(c) == c \in {")", "]", "}"}

\* /[(\[\{,:;=!?~+\-*%&|^<>]/
IsOperatorChar(c) ==
    c \in {"(", "[", "{", ",", ":", ";", "=", "!", "?", "~", "+", "-", "*",
           "%", "&", "|", "^", "<", ">"}

\* source[i], "" when i is outside the text (undefined / '' in the code)
At(s, i) == IF i >= 0 /\ i < Len(s) THEN s[i + 1] ELSE ""

\* source.slice(a, b) for 0 <= a <= b <= source.length
Slice(s, a, b) == SubSeq(s, a + 1, b)

Marker == <<"_", "_", "d", "(">>

\* source.startsWith('__d(', i)
StartsWithMarker(s, i) ==
    /\ i + Len(Marker) <= Len(s)
    /\ \A k \in 1..Len(Marker) : s[i + k] = Marker[k]

(***************************************************************************)
(* looksLikeRegexStart                                                     *)
(***************************************************************************)
RECURSIVE SkipSpaceBack(_, _)
\* while (j >= 0 && /\s/.test(source[j])) j--
SkipSpaceBack(s, j) ==
    IF j >= 0 /\ IsSpace(At(s, j)) THEN SkipSpaceBack(s, j - 1) ELSE j

RECURSIVE SkipWordBack(_, _)
\* while (k >= 0 && /[\w$]/.test(source[k])) k--
SkipWordBack(s, k) ==
    IF k >= 0 /\ IsWordOrDollar(At(s, k)) THEN SkipWordBack(s, k - 1) ELSE k

RegexKeywords ==
    { <<"r","e","t","u","r","n">>, <<"t","h","r","o","w">>, <<"c","a","s","e">> }

\* mutant of AfterOther: a slash after a quote, a backtick or a dot starts a
\* regex
AfterOther_QuoteStartsRegex(prev) ==
    prev \in {".", DoubleQuote, SingleQuote, Backtick} \/ IsOperatorChar(prev)

\* the last tests of looksLikeRegexStart, for a character prev that is
\* neither a closer nor a word character
AfterOther(prev) ==
    IF prev \in {".", DoubleQuote, SingleQuote, Backtick} THEN FALSE
    ELSE IsOperatorChar(prev)

looksLikeRegexStart(s, slashIdx) ==
    LET next == At(s, slashIdx + 1)
        j    == SkipSpaceBack(s, slashIdx - 1)
        prev == At(s, j)
    IN  IF next = "/" \/ next = "*" THEN FALSE
        ELSE IF j < 0 THEN TRUE
        ELSE IF IsCloser(prev) THEN FALSE
        ELSE IF IsWordOrDollar(prev)
             THEN Slice(s, SkipWordBack(s, j) + 1, j + 1) \in RegexKeywords
        ELSE AfterOther(prev)

(***************************************************************************)
(* The lexical state machine shared by findNextDCallStart and              *)
(* findMatchingParen: one loop iteration at offset i.                      *)
(*   st   the state after the iteration                                    *)
(*   adv  by how much i advances (2 where the code does an extra i++)      *)
(*   code TRUE when the iteration falls through to the final test of the   *)
(*        loop body (the marker test, the parenthesis count)               *)
(***************************************************************************)
LexInit == [mode |-> "code", regexInClass |-> FALSE, templateExprDepth |-> 0,
            templateExprStack |-> <<>>]

Skip1(st) == [st |-> st, adv |-> 1, code |-> FALSE]
Skip2(st) == [st |-> st, adv |-> 2, code |-> FALSE]

\* the string modes: a backslash consumes the next character, the quote ends
QuotedStep(st, ch, quote) ==
    IF ch = Backslash THEN Skip2(st)
    ELSE IF ch = quote THEN Skip1([st EXCEPT !.mode = "code"])
    ELSE Skip1(st)

TemplateStep(st, ch, next) ==
    IF ch = Backslash THEN Skip2(st)
    ELSE IF ch = Backtick
    THEN LET stk == st.templateExprStack
             n   == Len(stk)
         IN  Skip1([st EXCEPT
                 !.templateExprDepth = IF n = 0 THEN 0 ELSE stk[n],
                 !.templateExprStack = IF n = 0 THEN <<>> ELSE SubSeq(stk, 1, n - 1),
                 !.mode = "code"])
    ELSE IF ch = "$" /\ next = "{"
    THEN Skip2([st EXCEPT !.templateExprDepth = 1, !.mode = "code"])
    ELSE Skip1(st)

RegexStep(st, ch) ==
    IF ch = Backslash THEN Skip2(st)
    ELSE IF ch = "[" THEN Skip1([st EXCEPT !.regexInClass = TRUE])
    ELSE IF ch = "]" /\ st.regexInClass THEN Skip1([st EXCEPT !.regexInClass = FALSE])
    ELSE IF ch = "/" /\ ~st.regexInClass THEN Skip1([st EXCEPT !.mode = "code"])
    ELSE Skip1(st)

\* the tail of the loop body in code mode: brace depth of a template expression
BraceStep(st, ch) ==
    IF st.templateExprDepth > 0 /\ ch = "{"
    THEN [st |-> [st EXCEPT !.templateExprDepth = @ + 1], adv |-> 1, code |-> TRUE]
    ELSE IF st.templateExprDepth > 0 /\ ch = "}"
    THEN IF st.templateExprDepth - 1 = 0
         THEN Skip1([st EXCEPT !.templateExprDepth = 0, !.mode = "template"])
         ELSE [st |-> [st EXCEPT !.templateExprDepth = @ - 1], adv |-> 1, code |-> TRUE]
    ELSE [st |-> st, adv |-> 1, code |-> TRUE]

CodeStep(s, i, st, ch, next) ==
    IF ch = "/" /\ next = "/" THEN Skip2([st EXCEPT !.mode = "lineComment"])
    ELSE IF ch = "/" /\ next = "*" THEN Skip2([st EXCEPT !.mode = "blockComment"])
    ELSE IF ch = SingleQuote THEN Skip1([st EXCEPT !.mode = "single"])
    ELSE IF ch = DoubleQuote THEN Skip1([st EXCEPT !.mode = "double"])
    ELSE IF ch = Backtick
    THEN Skip1([st EXCEPT
            !.templateExprStack = Append(@, st.templateExprDepth),
            !.templateExprDepth = 0,
            !.mode = "template"])
    ELSE IF ch = "/" /\ looksLikeRegexStart(s, i)
    THEN Skip1([st EXCEPT !.mode = "regex", !.regexInClass = FALSE])
    ELSE BraceStep(st, ch)

LexStep(s, i, st) ==
    LET ch   == At(s, i)
        next == At(s, i + 1)
    IN  CASE st.mode = "lineComment" ->
                Skip1(IF ch = Newline THEN [st EXCEPT !.mode = "code"] ELSE st)
          [] st.mode = "blockComment" ->
                IF ch = "*" /\ next = "/"
                THEN Skip2([st EXCEPT !.mode = "code"])
                ELSE Skip1(st)
          [] st.mode = "single"   -> QuotedStep(st, ch, SingleQuote)
          [] st.mode = "double"   -> QuotedStep(st, ch, DoubleQuote)
          [] st.mode = "template" -> TemplateStep(st, ch, next)
          [] st.mode = "regex"    -> RegexStep(st, ch)
          [] OTHER                -> CodeStep(s, i, st, ch, next)

(***************************************************************************)
(* findNextDCallStart: -1 when no marker is found                          *)
(***************************************************************************)
NotFound == -1

\* mutant of IsMarkerHit: a marker inside a template expression is passed over
IsMarkerHit_OutsideTemplateOnly(s, i, step) ==
    step.code /\ step.st.templateExprDepth = 0 /\ At(s, i) = "_" /\ StartsWithMarker(s, i)

\* the test at the end of the loop body of findNextDCallStart
IsMarkerHit(s, i, step) ==
    step.code /\ At(s, i) = "_" /\ StartsWithMarker(s, i)

RECURSIVE FindScan(_, _, _)
FindScan(s, i, st) ==
    IF i >= Len(s) THEN NotFound
    ELSE LET step == LexStep(s, i, st)
         IN  IF IsMarkerHit(s, i, step) THEN i
             ELSE FindScan(s, i + step.adv, step.st)

findNextDCallStart(s, fromIdx) == FindScan(s, fromIdx, LexInit)

(***************************************************************************)
(* findMatchingParen: Unterminated stands for the thrown Error             *)
(***************************************************************************)
Unterminated == -1

\* mutant of DepthAfter: parentheses are counted in every lexical context
DepthAfter_CountsEveryParen(depth, ch, step) ==
    IF ch = "(" THEN depth + 1
    ELSE IF ch = ")" THEN depth - 1
    ELSE depth

\* depth after the iteration at offset i (the code counts only when the
\* iteration reaches the end of the loop body)
DepthAfter(depth, ch, step) ==
    IF step.code /\ ch = "(" THEN depth + 1
    ELSE IF step.code /\ ch = ")" THEN depth - 1
    ELSE depth

RECURSIVE MatchScan(_, _, _, _)
MatchScan(s, i, st, depth) ==
    IF i >= Len(s) THEN Unterminated
    ELSE LET step == LexStep(s, i, st)
             ch   == At(s, i)
             d    == DepthAfter(depth, ch, step)
         IN  IF step.code /\ ch = ")" /\ d = 0 THEN i
             ELSE MatchScan(s, i + step.adv, step.st, d)

findMatchingParen(s, openParenIdx) == MatchScan(s, openParenIdx, LexInit, 0)

(***************************************************************************)
(* extractDCalls: one action per way an iteration of the while-loop ends   *)
(***************************************************************************)
RECURSIVE SkipSpaceFwd(_, _)
\* while (end < source.length && /\s/.test(source[end])) end++
SkipSpaceFwd(s, end) ==
    IF end < Len(s) /\ IsSpace(At(s, end)) THEN SkipSpaceFwd(s, end + 1) ELSE end

\* mutant of CallEnd: a semicolon after the call is left out of its extent
CallEnd_WithoutSemicolon(s, closeParenIdx) == SkipSpaceFwd(s, closeParenIdx + 1)

\* the end of the extent of a call whose closing parenthesis is at closeParenIdx
CallEnd(s, closeParenIdx) ==
    LET end == SkipSpaceFwd(s, closeParenIdx + 1)
    IN  IF At(s, end) = ";" THEN end + 1 ELSE end

\* mutant of AfterCall: the scan resumes right after the marker of the call
\* that was pushed, as it does after a failure
AfterCall_ResumesInsideCall(start, end) == start + Len(Marker)

\* the cursor after a call was pushed (i = end)
AfterCall(start, end) == end

\* mutant of AfterFailure: the scan resumes at the marker that failed
AfterFailure_SameOffset(start) == start

\* mutant of AfterFailure: the scan resumes one character after the start of
\* the marker
AfterFailure_OneCharOnly(start) == start + 1

\* the cursor after findMatchingParen threw (i = start + '__d('.length)
AfterFailure(start) == start + Len(Marker)

\* while (i < source.length) fails: return out
ExtractReturn ==
    /\ spc = "loop"
    /\ cursor >= Len(source)
    /\ spc' = "done"
    /\ UNCHANGED <<source, cursor, out, calls, nonScanVars>>

\* start === -1: break
ExtractBreak ==
    /\ spc = "loop"
    /\ cursor < Len(source)
    /\ findNextDCallStart(source, cursor) = NotFound
    /\ spc' = "done"
    /\ UNCHANGED <<source, cursor, out, calls, nonScanVars>>

\* the try block runs to its end
ExtractCall ==
    /\ spc = "loop"
    /\ cursor < Len(source)
    /\ LET start == findNextDCallStart(source, cursor)
           close == findMatchingParen(source, start + 3)
           end   == CallEnd(source, close)
       IN  /\ start # NotFound
           /\ close # Unterminated
           /\ out' = Append(out, Slice(source, start, end))
           /\ cursor' = AfterCall(start, end)
           /\ calls' = Append(calls, [from |-> cursor, start |-> start,
                                      close |-> close, end |-> end])
    /\ UNCHANGED <<source, spc, nonScanVars>>

\* findMatchingParen threw: the catch block
ExtractSkip ==
    /\ spc = "loop"
    /\ cursor < Len(source)
    /\ LET start == findNextDCallStart(source, cursor)
       IN  /\ start # NotFound
           /\ findMatchingParen(source, start + 3) = Unterminated
           /\ cursor' = AfterFailure(start)
           /\ calls' = Append(calls, [from |-> cursor, start |-> start,
                                      close |-> Unterminated,
                                      end |-> AfterFailure(start)])
    /\ UNCHANGED <<source, out, spc, nonScanVars>>

(***************************************************************************)
(* The bundles the scanner is run on: every concatenation of at most       *)
(* MaxTokens tokens of one token set, and some longer texts.               *)
(***************************************************************************)
MaxTokens == 4

StringTokens ==
    { Marker, <<")">>, <<"(">>, <<SingleQuote>>, <<DoubleQuote>>,
      <<Backslash>>, <<";">>, <<" ">> }

TemplateTokens ==
    { Marker, <<")">>, <<"(">>, <<Backtick>>, <<"$", "{">>, <<"{">>, <<"}">>,
      <<Backslash>> }

RegexTokens ==
    { Marker, <<")">>, <<"/">>, <<"[">>, <<"]">>, <<Backslash>>, <<"=">>,
      <<"a">> }

CommentTokens ==
    { Marker, <<")">>, <<"(">>, <<"/">>, <<"*">>, <<Newline>>, <<" ">>,
      <<";">> }

\* texts in which a slash follows a quote, a dot, a word, a keyword, an
\* operator or nothing
SlashTokens ==
    { Marker, <<"/">>, <<SingleQuote>>, <<".">>, <<"a">>, <<" ">>, <<"=">>,
      <<"c", "a", "s", "e">> }

TokenSets == {StringTokens, TemplateTokens, RegexTokens, CommentTokens, SlashTokens}

RECURSIVE Concat(_, _)
\* the concatenation of the first n tokens of ts
Concat(ts, n) == IF n = 0 THEN <<>> ELSE Concat(ts, n - 1) \o ts[n]

\* var re = /__d\(/; __d('X',function(){});
ExampleRegexLiteral ==
    <<"v", "a", "r", " ", "r", "e", " ", "=", " ", "/", "_", "_", "d",
      Backslash, "(", "/", ";", " ", "_", "_", "d", "(", SingleQuote, "X",
      SingleQuote, ",", "f", "u", "n", "c", "t", "i", "o", "n", "(", ")",
      "{", "}", ")", ";">>

\* a template literal: a call in its expression, then text that holds a marker
ExampleTemplateExpr ==
    <<Backtick, "$", "{", "_", "_", "d", "(", "1", ")", "}", " ", "_", "_",
      "d", "(", "2", ")", Backtick>>

\* __d(__d()__d()   an unterminated call around two complete ones
ExampleSkippedCall ==
    <<"_", "_", "d", "(", "_", "_", "d", "(", ")", "_", "_", "d", "(", ")">>

\* a call whose arguments are a double-quoted string, a single-quoted string,
\* a template literal with an expression and a regex with a class, each
\* holding parentheses, followed by a blank and a semicolon
ExampleParensInLiterals ==
    <<"_", "_", "d", "(", DoubleQuote, "a", ")", DoubleQuote, ",",
      SingleQuote, "(", SingleQuote, ",", Backtick, ")", "$", "{", "(", "1",
      ")", "}", "(", Backtick, ",", "/", "[", "/", ")", "]", Backslash, ")",
      "/", ")", " ", ";">>

\* return /__d(/;__d()
ExampleReturnRegex ==
    <<"r", "e", "t", "u", "r", "n", " ", "/", "_", "_", "d", "(", "/", ";",
      "_", "_", "d", "(", ")">>

\* a block comment and a line comment that hold a marker, then a call with a
\* block comment holding a closing parenthesis
ExampleComments ==
    <<"/", "*", " ", "_", "_", "d", "(", " ", "*", "/", " ", "/", "/", " ",
      "_", "_", "d", "(", Newline, " ", "_", "_", "d", "(", " ", "/", "*",
      ")", "*", "/", " ", ")", " ", ";">>

ExampleSources ==
    { ExampleRegexLiteral, ExampleTemplateExpr, ExampleSkippedCall,
      ExampleParensInLiterals, ExampleReturnRegex, ExampleComments }

ScanInit ==
    /\ \/ \E T \in TokenSets : \E n \in 0..MaxTokens :
            \E ts \in [1..n -> T] : source = Concat(ts, n)
       \/ source \in ExampleSources
    /\ cursor = 0
    /\ out = <<>>
    /\ calls = <<>>
    /\ spc = "loop"

ScanNext == ExtractReturn \/ ExtractBreak \/ ExtractCall \/ ExtractSkip

(***************************************************************************)
(* Properties of the scanner                                               *)
(***************************************************************************)
RECURSIVE CodeScan(_, _, _)
\* the offsets that one uninterrupted run of the lexical state machine, started
\* in code mode at offset i, treats as code (the iteration at that offset
\* reaches the end of the loop body)
CodeScan(s, i, st) ==
    IF i >= Len(s) THEN {}
    ELSE LET step == LexStep(s, i, st)
         IN  (IF step.code THEN {i} ELSE {}) \cup CodeScan(s, i + step.adv, step.st)

CodeOffsetsFrom(s, from) == CodeScan(s, from, LexInit)

Completed == SelectSeq(calls, LAMBDA c : c.close # Unterminated)

\* C1: no offset findNextDCallStart returns lies inside a string, template
\* text, a regex literal or a comment of the bundle: every reported marker
\* is at an offset that the lexical state machine, run over the bundle from
\* its first character, treats as code.
C1_MarkerNeverInsideLiteral ==
    \A k \in DOMAIN calls : calls[k].start \in CodeOffsetsFrom(source, 0)

\* C2: every string extractDCalls returns is source.slice(start, end) of a
\* call with start < end <= source.length, and each call starts at or after
\* the end of the one before it, also after a failed call was skipped.
C2_SpansOrderedDisjoint ==
    /\ Len(out) = Len(Completed)
    /\ \A k \in DOMAIN out :
          /\ 0 <= Completed[k].start
          /\ Completed[k].start < Completed[k].end
          /\ Completed[k].end <= Len(source)
          /\ out[k] = Slice(source, Completed[k].start, Completed[k].end)
          /\ k > 1 => /\ Completed[k - 1].end <= Completed[k].start
                      /\ Completed[k - 1].start < Completed[k].start

\* C2 witness: two spans were returned after an unterminated call was skipped
C2_Witness ==
    /\ Len(out) >= 2
    /\ calls[1].close = Unterminated

\* the parentheses at code offsets of open..q, as classified by the machine
\* started at open
CodeParens(s, open, q, paren) ==
    {p \in open..q : p \in CodeOffsetsFrom(s, open) /\ At(s, p) = paren}

\* C10: the offset findMatchingParen returns is a `)` in code context at
\* which the parentheses in code context since the opening one balance for
\* the first time; parentheses in strings, template text, regex literals
\* and comments are not counted, and the depth never drops below zero.
C10_MatchingParenBalances ==
    \A k \in DOMAIN calls :
        LET open  == calls[k].start + 3
            close == calls[k].close
            Depth(q) == Cardinality(CodeParens(source, open, q, "("))
                          - Cardinality(CodeParens(source, open, q, ")"))
        IN  close # Unterminated =>
              /\ close \in CodeOffsetsFrom(source, open)
              /\ At(source, close) = ")"
              /\ Depth(close) = 0
              /\ \A q \in open..(close - 1) : Depth(q) > 0

\* C10 witness: a matched call that holds a nested parenthesis pair in code
\* and parentheses inside a literal or comment
C10_Witness ==
    \E k \in DOMAIN calls :
        LET open  == calls[k].start + 3
            close == calls[k].close
            code  == CodeOffsetsFrom(source, open)
        IN  /\ close # Unterminated
            /\ \E p \in (open + 1)..(close - 1) : p \in code /\ At(source, p) = "("
            /\ \E p \in (open + 1)..(close - 1) : p \notin code /\ At(source, p) = "("
            /\ \E p \in (open + 1)..(close - 1) : p \notin code /\ At(source, p) = ")"

(***************************************************************************)
(* runWithConcurrency(items, limit, worker)                                *)
(*                                                                         *)
(* A runner is an async function; it is suspended exactly while the        *)
(* worker() promise of the item it took is pending, so the live runners    *)
(* are the items in flight.  Everything a runner does between two awaits   *)
(* is one action.                                                          *)
(***************************************************************************)
Max(a, b) == IF a >= b THEN a ELSE b
Min(a, b) == IF a <= b THEN a ELSE b

\* Math.floor of a limit given in halves
FloorOfHalves(h2) == IF h2 >= 0 THEN h2 \div 2 ELSE -((1 - h2) \div 2)

\* const concurrency = Math.max(1, Math.floor(limit))
Concurrency(lim2) == Max(1, FloorOfHalves(lim2))

\* mutant of RunnerCount: one runner per item, whatever the limit
RunnerCount_IgnoresLimit(n, lim2) == n

\* new Array(Math.min(concurrency, items.length)): the number of runners
RunnerCount(n, lim2) == Min(Concurrency(lim2), n)

\* The call: the runners are created one after the other, and each runs up to
\* its first await, taking the next index and calling worker() for it.
\* With no runner, Promise.all([]) resolves.
RunCall ==
    /\ rwState = "idle"
    /\ LET r == RunnerCount(items, limit2)
       IN  /\ nextIdx' = r
           /\ inflight' = 0..(r - 1)
           /\ invoked' = [i \in 0..(items - 1) |-> IF i < r THEN 1 ELSE 0]
           /\ rwState' = IF r = 0 THEN "resolved" ELSE "pending"
    /\ UNCHANGED <<items, limit2, nonRunVars>>

\* worker() for item i resolved and its runner finds a next index: it calls
\* worker() for it and awaits again
RunnerTakesNext(i) ==
    /\ i \in inflight
    /\ nextIdx < items
    /\ inflight' = (inflight \ {i}) \cup {nextIdx}
    /\ invoked' = [invoked EXCEPT ![nextIdx] = @ + 1]
    /\ nextIdx' = nextIdx + 1
    /\ UNCHANGED <<items, limit2, rwState, nonRunVars>>

\* worker() for item i resolved and its runner finds idx >= items.length: it
\* returns; Promise.all resolves once every runner has returned
RunnerReturns(i) ==
    /\ i \in inflight
    /\ nextIdx >= items
    /\ inflight' = inflight \ {i}
    /\ nextIdx' = nextIdx + 1
    /\ rwState' = IF rwState = "pending" /\ inflight' = {} THEN "resolved" ELSE rwState
    /\ UNCHANGED <<items, limit2, invoked, nonRunVars>>

\* worker() for item i rejected: the await throws, the runner's promise
\* rejects, and Promise.all rejects if it has not settled yet
RunnerThrows(i) ==
    /\ i \in inflight
    /\ inflight' = inflight \ {i}
    /\ rwState' = IF rwState = "pending" THEN "rejected" ELSE rwState
    /\ UNCHANGED <<items, limit2, nextIdx, invoked, nonRunVars>>

MaxItems == 4
MaxLimit == 3

RunInit ==
    /\ items \in 0..MaxItems
    /\ limit2 \in (-2)..(2 * MaxLimit + 1)
    /\ nextIdx = 0
    /\ inflight = {}
    /\ invoked = [i \in 0..(items - 1) |-> 0]
    /\ rwState = "idle"

RunNext ==
    \/ RunCall
    \/ \E i \in 0..(MaxItems - 1) : RunnerTakesNext(i)
    \/ \E i \in 0..(MaxItems - 1) : RunnerReturns(i)
    \/ \E i \in 0..(MaxItems - 1) : RunnerThrows(i)

\* C3: for a limit of at least 1, once the call has settled worker() has been
\* invoked exactly once for every item.
C3_EveryItemOnceWhenSettled ==
    (limit2 >= 2 /\ rwState \in {"resolved", "rejected"}) =>
        \A i \in 0..(items - 1) : invoked[i] = 1

\* C4: for a limit of at least 1, never more than limit invocations of
\* worker() are in flight.
C4_AtMostLimitInFlight ==
    limit2 >= 2 => 2 * Cardinality(inflight) <= limit2

\* C4 witness: as many invocations as the limit allows are in flight, one of
\* them taken by a runner after an earlier invocation of it completed, while
\* items are still waiting
C4_Witness ==
    /\ limit2 >= 2
    /\ Cardinality(inflight) = limit2 \div 2
    /\ Cardinality(inflight) >= 2
    /\ \E i \in inflight : i >= limit2 \div 2
    /\ nextIdx < items

\* C13: for a limit of at least 1, a rejected invocation does not keep the
\* items after it from being dispatched: once the call was made and no
\* invocation is in flight any more, worker() has been invoked for every item.
C13_LaterItemsStillDispatched ==
    (limit2 >= 2 /\ rwState \in {"pending", "resolved", "rejected"} /\ inflight = {}) =>
        \A i \in 0..(items - 1) : invoked[i] >= 1

\* C14: the promise of runWithConcurrency is not rejected while an invocation
\* it started is still in flight.
C14_RejectsOnlyWhenAllSettled ==
    rwState = "rejected" => inflight = {}

RECURSIVE ExtractLoop(_, _, _)
ExtractLoop(s, i, acc) ==
    IF i >= Len(s) THEN acc
    ELSE LET start == findNextDCallStart(s, i)
         IN  IF start = NotFound THEN acc
             ELSE LET close == findMatchingParen(s, start + 3)
                      end   == CallEnd(s, close)
                  IN  IF close = Unterminated
                      THEN ExtractLoop(s, AfterFailure(start), acc)
                      ELSE ExtractLoop(s, AfterCall(start, end),
                                       Append(acc, Slice(s, start, end)))

extractDCalls(s) == ExtractLoop(s, 0, <<>>)

IsSuffix(t, s) ==
    /\ Len(t) <= Len(s)
    /\ \A k \in 1..Len(t) : t[k] = s[Len(s) - Len(t) + k]

\* C11: when findMatchingParen reaches the end of the input, extractDCalls
\* pushes nothing for that call and goes on at the offset right after the
\* call's marker: the next search starts there, and when extractDCalls
\* returns, the calls an extraction started at that offset finds are the last
\* spans of the result.
C11_UnterminatedCallSkipped ==
    /\ Len(out) = Len(Completed)
    /\ \A k \in DOMAIN calls :
          calls[k].close = Unterminated =>
              LET resume == calls[k].start + Len(Marker)
              IN  /\ k < Len(calls) => calls[k + 1].from = resume
                  /\ k = Len(calls) => cursor = resume
                  /\ \A j \in DOMAIN Completed : Completed[j].start # calls[k].start
                  /\ spc = "done" => IsSuffix(ExtractLoop(source, resume, <<>>), out)

\* C11 witness: extractDCalls returned, its first call was unterminated and
\* skipped, and the two calls after its marker were returned
C11_Witness ==
    /\ spc = "done"
    /\ Len(calls) = 3
    /\ calls[1].close = Unterminated
    /\ calls[2].start = calls[1].start + Len(Marker)
    /\ Len(out) = 2

\* C21: the extent of a returned call starts at the first character of its
\* marker, runs to the parenthesis that matches the marker's, over all the
\* whitespace after it and over one semicolon if that comes next, and ends
\* there; the returned string is that extent and the next search starts at
\* its end.
C21_ExtentOfCall ==
    /\ Len(out) = Len(Completed)
    /\ \A k \in DOMAIN calls :
          calls[k].close # Unterminated =>
              LET c  == calls[k]
                  ws == CHOOSE e \in (c.close + 1)..Len(source) :
                            /\ \A h \in (c.close + 1)..(e - 1) : IsSpace(At(source, h))
                            /\ ~IsSpace(At(source, e))
              IN  /\ StartsWithMarker(source, c.start)
                  /\ c.close = findMatchingParen(source, c.start + 3)
                  /\ At(source, c.close) = ")"
                  /\ c.end = IF At(source, ws) = ";" THEN ws + 1 ELSE ws
                  /\ k < Len(calls) => calls[k + 1].from = c.end
                  /\ k = Len(calls) => cursor = c.end
    /\ \A j \in DOMAIN Completed :
          out[j] = Slice(source, Completed[j].start, Completed[j].end)

\* C21 witness: of a call followed by two semicolons the first semicolon was
\* returned with the call, and the next search started at the second
C21_Witness ==
    /\ spc = "done"
    /\ source = Marker \o <<")", ";", ";">>
    /\ out = <<Marker \o <<")", ";">>>>
    /\ Len(calls) = 1
    /\ cursor = 6

\* the offsets at or after from where the marker stands and which a scan
\* started at from in code mode treats as code
MarkersInCode(s, from) == {i \in CodeOffsetsFrom(s, from) : StartsWithMarker(s, i)}

PrevOffset(s, i) ==
    IF \E j \in 0..(i - 1) : ~IsSpace(At(s, j))
    THEN CHOOSE j \in 0..(i - 1) :
             ~IsSpace(At(s, j)) /\ \A h \in (j + 1)..(i - 1) : IsSpace(At(s, h))
    ELSE -1

\* the word that ends at offset j: the longest run of word characters and $
WordEndingAt(s, j) ==
    LET k == CHOOSE b \in 0..j :
                 /\ \A h \in b..j : IsWordOrDollar(At(s, h))
                 /\ (b = 0 \/ ~IsWordOrDollar(At(s, b - 1)))
    IN  Slice(s, k, j + 1)

\* the token before offset i produces a value, as the specification lists
\* them: an identifier or a number, or a closing parenthesis, bracket or brace
AfterValueToken(s, i) ==
    LET j == PrevOffset(s, i)
    IN  j >= 0 /\ (IsWordOrDollar(At(s, j)) \/ IsCloser(At(s, j)))

AfterRegexKeyword(s, i) ==
    LET j == PrevOffset(s, i)
    IN  j >= 0 /\ IsWordOrDollar(At(s, j)) /\ WordEndingAt(s, j) \in RegexKeywords

RECURSIVE CodeVisits(_, _, _)
\* the loop iterations of a scan from offset i in state st that begin in code
\* mode: the offset, and the mode the iteration leaves
CodeVisits(s, i, st) ==
    IF i >= Len(s) THEN {}
    ELSE LET step == LexStep(s, i, st)
         IN  (IF st.mode = "code" THEN {[at |-> i, after |-> step.st.mode]} ELSE {})
                 \cup CodeVisits(s, i + step.adv, step.st)

\* the iterations of the scan of the whole text that meet, in code mode, a
\* slash that opens no comment
SlashVisits(s) ==
    {v \in CodeVisits(s, 0, LexInit) :
        At(s, v.at) = "/" /\ At(s, v.at + 1) \notin {"/", "*"}}

\* C30 as stated: a slash in code context that opens no comment starts a
\* regex exactly when the token before it is not an identifier, a number or a
\* closing parenthesis, bracket or brace, or is return, throw or case;
\* otherwise the scanner stays in code mode.
C30_RegexUnlessAfterValue ==
    \A v \in SlashVisits(source) :
        v.after = IF ~AfterValueToken(source, v.at) \/ AfterRegexKeyword(source, v.at)
                  THEN "regex" ELSE "code"

\* C30 as the code has it: a slash in code context that opens no comment
\* starts a regex exactly when nothing but whitespace stands before it, when
\* the character before it is one of ( [ { , : ; = ! ? ~ + - * % & | ^ < >,
\* or when the word before it is return, throw or case; after any other
\* character, a quote, a backtick, a dot and the slash that closes a regex
\* included, the scanner stays in code mode.
C30_RegexAfterOperatorOrKeyword ==
    \A v \in SlashVisits(source) :
        LET j == PrevOffset(source, v.at)
        IN  v.after = IF \/ j < 0
                         \/ IsOperatorChar(At(source, j))
                         \/ AfterRegexKeyword(source, v.at)
                      THEN "regex" ELSE "code"

\* C30 witness: the slash after a string is division, so the marker behind
\* it is found
C30_Witness ==
    /\ source = <<SingleQuote, SingleQuote, "/">> \o Marker
    /\ Len(calls) = 1
    /\ calls[1].start = 3

\* the state in which a scan, being at offset i in state st, arrives at the
\* offset at; Passed when it ends before it or steps over it
Passed == [mode |-> "passed", regexInClass |-> FALSE, templateExprDepth |-> 0,
           templateExprStack |-> <<>>]

RECURSIVE StateAt(_, _, _, _)
StateAt(s, i, st, at) ==
    IF i = at THEN st
    ELSE IF i > at \/ i >= Len(s) THEN Passed
    ELSE LET step == LexStep(s, i, st)
         IN  StateAt(s, i + step.adv, step.st, at)

\* C31: template nesting is tracked correctly.  At every offset that a scan
\* of findNextDCallStart visits and that lies inside a template literal of
\* the bundle (its text or one of its expressions, as the lexical state
\* machine run over the bundle from its first character finds them), the
\* iteration leaves the scanner in the mode and at the brace depth of that
\* place: a brace of an expression raises or lowers the depth, the brace that
\* closes the expression returns to template text, and the backtick that
\* closes a nested template restores the depth of the expression around it.
C31_TemplateNestingTracked ==
    \A k \in 1..Len(calls) :
        \A i \in calls[k].from..calls[k].start :
            LET whole == StateAt(source, 0, LexInit, i)
                part  == StateAt(source, calls[k].from, LexInit, i)
                here  == LexStep(source, i, whole).st
                seen  == LexStep(source, i, part).st
            IN  (/\ whole # Passed
                 /\ part # Passed
                 /\ Len(whole.templateExprStack) > 0)
                => /\ seen.mode = here.mode
                   /\ seen.templateExprDepth = here.templateExprDepth

\* C32: extractDCalls terminates.  Every iteration of its loop either ends
\* the loop or moves the cursor strictly forward, after an extracted call as
\* after a skipped one; the cursor never passes the end of the bundle and
\* there are never more iterations behind it than characters, so the
\* distance of the cursor to the end of the bundle bounds the iterations
\* still to come.
C32_ExtractTerminates ==
    [][\/ spc' = "done" /\ cursor' = cursor
       \/ /\ spc' = "loop"
          /\ cursor < cursor'
          /\ cursor' <= Len(source)
          /\ Len(calls') <= cursor']_vars

\* __d(__d()__d() was scanned to its end in three iterations, the first one
\* skipping an unterminated call
C32_Witness ==
    /\ spc = "done"
    /\ source = ExampleSkippedCall
    /\ Len(calls) = 3
    /\ calls[1].close = Unterminated
    /\ Len(out) = 2
    /\ cursor = Len(source)

(***************************************************************************)
(* extractFirstStringArg: NoName stands for null                           *)
(***************************************************************************)
NoName == [isNull |-> TRUE, name |-> <<>>]

RECURSIVE ReadString(_, _, _, _)
\* the for-loop of extractFirstStringArg from offset i on
ReadString(dCall, i, quote, acc) ==
    IF i >= Len(dCall) THEN NoName
    ELSE LET ch == At(dCall, i)
         IN  IF ch = Backslash
             THEN ReadString(dCall, i + 2, quote,
                             IF i + 1 < Len(dCall) THEN Append(acc, At(dCall, i + 1))
                                                   ELSE acc)
             ELSE IF ch = quote THEN [isNull |-> FALSE, name |-> acc]
             ELSE ReadString(dCall, i + 1, quote, Append(acc, ch))

RECURSIVE IndexOfMarker(_, _)
\* dCall.indexOf('__d(') searched from offset i, -1 when absent
IndexOfMarker(dCall, i) ==
    IF i + Len(Marker) > Len(dCall) THEN -1
    ELSE IF StartsWithMarker(dCall, i) THEN i
    ELSE IndexOfMarker(dCall, i + 1)

\* the unescaped first string argument, or NoName
extractFirstStringArg(dCall) ==
    LET start == IndexOfMarker(dCall, 0)
        i     == SkipSpaceFwd(dCall, start + Len(Marker))
        quote == At(dCall, i)
    IN  IF start = -1 THEN NoName
        ELSE IF quote # DoubleQuote /\ quote # SingleQuote THEN NoName
        ELSE ReadString(dCall, i + 1, quote, <<>>)

(***************************************************************************)
(* Names                                                                   *)
(***************************************************************************)
\* [\w\-\[\]]
IsNameChar(c) == c \in Letters \cup Digits \cup {"_", "-", "[", "]"}

RECURSIVE TrimStart(_)
TrimStart(str) ==
    IF str # <<>> /\ IsSpace(Head(str)) THEN TrimStart(Tail(str)) ELSE str

RECURSIVE TrimEnd(_)
TrimEnd(str) ==
    IF str # <<>> /\ IsSpace(str[Len(str)])
    THEN TrimEnd(SubSeq(str, 1, Len(str) - 1))
    ELSE str

\* String.prototype.trim
Trim(str) == TrimEnd(TrimStart(str))

\* (extractFirstStringArg(dCall) || '').trim()
RawName(dCall) ==
    LET arg == extractFirstStringArg(dCall)
    IN  IF arg.isNull THEN <<>> ELSE Trim(arg.name)

\* rawName && /^[\w\[\]-]+/.test(rawName)
IsUsableName(rawName) == rawName # <<>> /\ IsNameChar(rawName[1])

RECURSIVE Sanitize(_)
\* rawName.replace(/[^\w\-\[\]]+/g, '_'): every run of other characters
\* becomes one underscore
Sanitize(str) ==
    IF str = <<>> THEN <<>>
    ELSE IF IsNameChar(Head(str)) THEN <<Head(str)>> \o Sanitize(Tail(str))
    ELSE IF Len(str) > 1 /\ ~IsNameChar(str[2]) THEN Sanitize(Tail(str))
    ELSE <<"_">> \o Sanitize(Tail(str))

DigitChar == <<"0", "1", "2", "3", "4", "5", "6", "7", "8", "9">>

RECURSIVE Decimal(_)
\* the decimal digits of n >= 0, as `${n}` gives them
Decimal(n) ==
    IF n < 10 THEN <<DigitChar[n + 1]>>
    ELSE Decimal(n \div 10) \o <<DigitChar[(n % 10) + 1]>>

\* `module_${n}`
SyntheticName(n) == <<"m", "o", "d", "u", "l", "e", "_">> \o Decimal(n)

\* mutant of NextCount: every call advances the counter
NextCount_EveryCall(n, usable) == n + 1

\* the counter after a call: ++count is evaluated only for a call without a
\* usable name
NextCount(n, usable) == IF usable THEN n ELSE n + 1

\* usedNames.get(name) || 0
Seen(used, name) == IF name \in DOMAIN used THEN used[name] ELSE 0

\* usedNames.set(name, seen + 1)
MapSet(used, name, n) ==
    [k \in DOMAIN used \cup {name} |-> IF k = name THEN n ELSE used[k]]

\* mutant of DisambiguatedName: the suffix is the number of earlier
\* occurrences, not the occurrence number
DisambiguatedName_OffByOne(safeBaseBase, seen) ==
    IF seen = 0 THEN safeBaseBase ELSE safeBaseBase \o <<"_">> \o Decimal(seen)

\* seen === 0 ? safeBaseBase : `${safeBaseBase}_${seen + 1}`
DisambiguatedName(safeBaseBase, seen) ==
    IF seen = 0 THEN safeBaseBase ELSE safeBaseBase \o <<"_">> \o Decimal(seen + 1)

\* `${safeBase}.js`
JsFile(safeBase) == safeBase \o <<".", "j", "s">>

RECURSIVE LastDot(_, _)
\* the 1-based position of the last "." among the first k characters, or 0
LastDot(f, k) ==
    IF k = 0 THEN 0 ELSE IF f[k] = "." THEN k ELSE LastDot(f, k - 1)

(***************************************************************************)
(* Prefix clustering: computeMergePrefixes and pickMergeDir                *)
(*                                                                         *)
(* A prefix is a record [raw, norm].  A Map or Set of the code, which      *)
(* iterates in insertion order, is a sequence without repetitions.         *)
(***************************************************************************)
WAWeb == <<"W", "A", "W", "e", "b">>

\* a.startsWith(p)
StartsWith(a, p) == Len(p) <= Len(a) /\ SubSeq(a, 1, Len(p)) = p

normalizeForMerge(name) ==
    IF StartsWith(name, WAWeb) THEN SubSeq(name, Len(WAWeb) + 1, Len(name)) ELSE name

\* safeNameComponent for names of at most maxLen (80) characters; longer
\* names, which the code shortens with a hash, are not used
safeNameComponent(name) ==
    LET cleaned == Trim(Sanitize(name))
    IN  IF cleaned = <<>> THEN <<"g", "r", "o", "u", "p">> ELSE cleaned

RECURSIVE CommonLen(_, _, _)
\* the while loop of longestCommonPrefix
CommonLen(a, b, i) ==
    IF i < Len(a) /\ i < Len(b) /\ a[i + 1] = b[i + 1] THEN CommonLen(a, b, i + 1) ELSE i

longestCommonPrefix(a, b) == SubSeq(a, 1, CommonLen(a, b, 0))

\* The order of localeCompare on the characters used in names: punctuation,
\* digits, then the letters with each small letter before its capital.  The
\* names the model clusters first differ at two capitals, two small letters,
\* two digits, or a dot against a letter or digit, or one is a prefix of the
\* other; for such names this order and the order of the code units agree.
CollationOrder ==
    <<"_", "-", ".", "[", "]", "0", "1", "2", "3", "4", "5", "6", "7", "8", "9",
      "a", "A", "b", "B", "c", "C", "d", "D", "e", "E", "f", "F", "g", "G",
      "h", "H", "i", "I", "j", "J", "k", "K", "l", "L", "m", "M", "n", "N",
      "o", "O", "p", "P", "q", "Q", "r", "R", "s", "S", "t", "T", "u", "U",
      "v", "V", "w", "W", "x", "X", "y", "Y", "z", "Z">>

CharRank(c) == CHOOSE k \in DOMAIN CollationOrder : CollationOrder[k] = c

\* a.localeCompare(b) < 0
LocaleLess(a, b) ==
    LET n == CommonLen(a, b, 0)
    IN  IF n = Len(b) THEN FALSE
        ELSE IF n = Len(a) THEN TRUE
        ELSE CharRank(a[n + 1]) < CharRank(b[n + 1])

\* seq.sort(comparator), less[j][k] saying that the comparator puts seq[j]
\* before seq[k]: Array.prototype.sort is stable, so an element comes behind
\* those put before it and behind the earlier ones the comparator does not
\* tell from it
SortBy(seq, less) ==
    LET Before(j, k) == \/ less[j][k]
                        \/ (~less[k][j] /\ j < k)
        Pos(k) == 1 + Cardinality({j \in DOMAIN seq : j # k /\ Before(j, k)})
    IN  [q \in DOMAIN seq |-> seq[CHOOSE k \in DOMAIN seq : Pos(k) = q]]

\* items: the names with their normal forms, those shorter than minPrefixLen
\* dropped, sorted by normal form
MergeItems(rawNames, minPrefixLen) ==
    LET its == SelectSeq([k \in DOMAIN rawNames |->
                             [raw |-> rawNames[k], norm |-> normalizeForMerge(rawNames[k])]],
                         LAMBDA x : Len(x.norm) >= minPrefixLen)
    IN  SortBy(its, [j \in DOMAIN its |-> [k \in DOMAIN its |->
                        LocaleLess(its[j].norm, its[k].norm)]])

\* set.add(raw)
SetAdd(set, raw) ==
    IF \E k \in DOMAIN set : set[k] = raw THEN set ELSE Append(set, raw)

\* prefixMembers.get(lcp).add(rawI); .add(rawJ), the entry made when missing
AddMembers(pm, lcp, rawI, rawJ) ==
    IF \E k \in DOMAIN pm : pm[k].prefix = lcp
    THEN [k \in DOMAIN pm |->
             IF pm[k].prefix = lcp
             THEN [pm[k] EXCEPT !.members = SetAdd(SetAdd(@, rawI), rawJ)]
             ELSE pm[k]]
    ELSE Append(pm, [prefix |-> lcp, members |-> SetAdd(<<rawI>>, rawJ)])

RECURSIVE PairLoop(_, _, _, _, _)
\* the two for loops over the items from (i, j) on, with indices from 1
PairLoop(its, i, j, pm, minPrefixLen) ==
    IF i > Len(its) THEN pm
    ELSE IF j > Len(its) THEN PairLoop(its, i + 1, i + 2, pm, minPrefixLen)
    ELSE LET lcp == longestCommonPrefix(its[i].norm, its[j].norm)
         IN  IF Len(lcp) < minPrefixLen
             THEN PairLoop(its, i + 1, i + 2, pm, minPrefixLen)
             ELSE PairLoop(its, i, j + 1,
                           AddMembers(pm, lcp, its[i].raw, its[j].raw), minPrefixLen)

\* candidates: the entries with enough members, the longer prefix first and
\* among equally long ones the one with more members
Candidates(pm, minMembers) ==
    LET es == SelectSeq(pm, LAMBDA e : Len(e.members) >= minMembers)
    IN  SortBy(es, [j \in DOMAIN es |-> [k \in DOMAIN es |->
                       \/ Len(es[j].prefix) > Len(es[k].prefix)
                       \/ /\ Len(es[j].prefix) = Len(es[k].prefix)
                          /\ Len(es[j].members) > Len(es[k].members)]])

RECURSIVE SelectLoop(_, _, _, _, _)
\* the loop over the candidates from the k-th on
SelectLoop(cands, k, selected, covered, minMembers) ==
    IF k > Len(cands) THEN selected
    ELSE LET members   == cands[k].members
             uncovered == SelectSeq(members, LAMBDA m : m \notin covered)
         IN  IF Len(uncovered) >= minMembers
             THEN SelectLoop(cands, k + 1, Append(selected, cands[k].prefix),
                             covered \cup {members[h] : h \in DOMAIN members},
                             minMembers)
             ELSE SelectLoop(cands, k + 1, selected, covered, minMembers)

\* the callback of selected.map: the directory keeps WAWeb when more than
\* half of the items that start with the prefix have it
PrefixOf(norm, its) ==
    LET matching  == SelectSeq(its, LAMBDA x : StartsWith(x.norm, norm))
        withWAWeb == Len(SelectSeq(matching, LAMBDA x : StartsWith(x.raw, WAWeb)))
    IN  [raw  |-> IF 2 * withWAWeb > Len(matching) THEN WAWeb \o norm ELSE norm,
         norm |-> norm]

computeMergePrefixes(rawNames, minPrefixLen, minMembers) ==
    IF Len(rawNames) < minMembers THEN <<>>
    ELSE LET its      == MergeItems(rawNames, minPrefixLen)
             pm       == PairLoop(its, 1, 2, <<>>, minPrefixLen)
             selected == SelectLoop(Candidates(pm, minMembers), 1, <<>>, {}, minMembers)
         IN  [k \in DOMAIN selected |-> PrefixOf(selected[k], its)]

\* the defaults of computeMergePrefixes
MinPrefixLen == 3
MinMembers == 2

RECURSIVE BestPrefix(_, _, _, _)
\* a for loop of pickMergeDir from the k-th prefix on: the first of the
\* longest prefixes that the text starts with, or best
BestPrefix(text, prefixes, k, best) ==
    IF k > Len(prefixes) THEN best
    ELSE IF StartsWith(text, prefixes[k].norm)
            /\ (best = <<>> \/ Len(prefixes[k].norm) > Len(best[1].norm))
         THEN BestPrefix(text, prefixes, k + 1, <<prefixes[k]>>)
         ELSE BestPrefix(text, prefixes, k + 1, best)

\* NoDir stands for null
NoDir == [isNull |-> TRUE, dir |-> <<>>]

\* mutant of DottedBest: the part after the last dot is not tried
DottedBest_NotTried(norm, prefixes) == <<>>

\* the best prefix for the part of a dotted name after its last dot
\* (dotIdx > 0), if any
DottedBest(norm, prefixes) ==
    IF LastDot(norm, Len(norm)) > 1
    THEN BestPrefix(SubSeq(norm, LastDot(norm, Len(norm)) + 1, Len(norm)), prefixes, 1, <<>>)
    ELSE <<>>

\* the prefix pickMergeDir decides for, if any: the one for the part after
\* the last dot comes first
PickedPrefix(rawName, prefixes) ==
    LET norm   == normalizeForMerge(rawName)
        dotted == DottedBest(norm, prefixes)
    IN  IF dotted # <<>> THEN dotted ELSE BestPrefix(norm, prefixes, 1, <<>>)

\* mutant of DirOfPrefix: the prefix is the directory as it is
DirOfPrefix_Unsanitized(p) == p.raw

\* safeNameComponent(best.raw)
DirOfPrefix(p) == safeNameComponent(p.raw)

pickMergeDir(rawName, prefixes) ==
    LET picked == PickedPrefix(rawName, prefixes)
    IN  IF picked = <<>> THEN NoDir
        ELSE [isNull |-> FALSE, dir |-> DirOfPrefix(picked[1])]


RECURSIVE BreakAfter(_, _, _)
\* str.replace(/c(?=...)/g, 'c\n') from offset i on, for the three patterns of
\* formatForIA: a newline is put behind c where a character follows that the
\* lookahead of the pattern accepts
BreakAfter(str, i, c) ==
    IF i >= Len(str) THEN <<>>
    ELSE LET ch   == At(str, i)
             next == At(str, i + 1)
             ok   == /\ i + 1 < Len(str)
                     /\ ~IsSpace(next)
                     /\ c = "}" => next \notin {",", ";", ")", "]"}
         IN  (IF ch = c /\ ok THEN <<ch, Newline>> ELSE <<ch>>)
                 \o BreakAfter(str, i + 1, c)

formatForIA(minified) ==
    BreakAfter(BreakAfter(BreakAfter(minified, 0, ";"), 0, "{"), 0, "}")

\* What terser's minify does is not modelled: it throws, or returns no code,
\* or returns some code, for which the text without its white space stands.
MinifyOutcomes == {"throws", "empty", "code"}

Minified(code, outcome) ==
    [ok   |-> outcome # "throws",
     code |-> IF outcome = "code" THEN SelectSeq(code, LAMBDA c : ~IsSpace(c)) ELSE <<>>]

\* mutant of maybeToIA: the text is formatted even when toIa is off
maybeToIA_AlwaysFormats(code, enabled, outcome) == formatForIA(code)

\* maybeToIA(code, enabled), given the outcome of minify
maybeToIA(code, enabled, outcome) ==
    IF ~enabled THEN code
    ELSE LET min == Minified(code, outcome)
         IN  IF ~min.ok \/ min.code = <<>> THEN formatForIA(code)
             ELSE formatForIA(min.code)

\* path.join(dir, file) for a dir and a file without separators and dots-only
\* parts, which is all that safeNameComponent and Sanitize produce
PathJoin(dir, file) == dir \o <<"/">> \o file

RECURSIVE RawNamesForMerge(_, _)
\* rawNamesForMerge: the usable names of the first k calls
RawNamesForMerge(cs, k) ==
    IF k = 0 THEN <<>>
    ELSE IF IsUsableName(RawName(cs[k]))
         THEN Append(RawNamesForMerge(cs, k - 1), RawName(cs[k]))
         ELSE RawNamesForMerge(cs, k - 1)

\* NoList stands for null
NoList == [isNull |-> TRUE, list |-> <<>>]

\* lines 900-917 of buildExportFiles
MergePrefixes(cs, merge, explicit) ==
    IF ~merge THEN <<>>
    ELSE IF ~explicit.isNull /\ Len(explicit.list) > 0
    THEN [k \in DOMAIN explicit.list |->
             [raw |-> explicit.list[k], norm |-> normalizeForMerge(explicit.list[k])]]
    ELSE computeMergePrefixes(RawNamesForMerge(cs, Len(cs)), MinPrefixLen, MinMembers)

(***************************************************************************)
(* buildExportFiles                                                        *)
(***************************************************************************)
\* const calls = extractDCalls(bundleContent); an empty list is returned at once
BuildStart ==
    /\ bpc = "start"
    /\ dCalls' = extractDCalls(bundle)
    /\ bpc' = IF dCalls' = <<>> THEN "done" ELSE "loop"
    /\ mergePrefixes' = IF dCalls' = <<>> THEN <<>>
                        ELSE MergePrefixes(dCalls', mergeCommonNames, mergeCommonPrefixes)
    /\ UNCHANGED <<bundle, disambiguate, toIa, mergeCommonNames, mergeCommonPrefixes,
                   callIdx, count, usedNames, files, nonBuildVars>>

\* one iteration of for (const dCall of calls), min being the outcome of
\* minify if it is called
BuildFile(min) ==
    /\ bpc = "loop"
    /\ callIdx < Len(dCalls)
    /\ LET dCall        == dCalls[callIdx + 1]
           rawName      == RawName(dCall)
           usable       == IsUsableName(rawName)
           safeBaseBase == IF usable THEN Sanitize(rawName)
                           ELSE SyntheticName(NextCount(count, usable))
           seen         == Seen(usedNames, safeBaseBase)
           safeBase     == IF disambiguate
                           THEN DisambiguatedName(safeBaseBase, seen)
                           ELSE safeBaseBase
           dir          == IF mergeCommonNames /\ usable
                           THEN pickMergeDir(rawName, mergePrefixes)
                           ELSE NoDir
           relPath      == IF dir.isNull THEN JsFile(safeBase)
                           ELSE PathJoin(dir.dir, JsFile(safeBase))
       IN  /\ count' = NextCount(count, usable)
           /\ usedNames' = IF disambiguate
                           THEN MapSet(usedNames, safeBaseBase, seen + 1)
                           ELSE usedNames
           /\ files' = Append(files, [fileName |-> relPath,
                                      content  |-> maybeToIA(dCall, toIa, min)])
    /\ callIdx' = callIdx + 1
    /\ UNCHANGED <<bundle, disambiguate, toIa, mergeCommonNames, mergeCommonPrefixes,
                   mergePrefixes, dCalls, bpc, nonBuildVars>>

\* return out
BuildReturn ==
    /\ bpc = "loop"
    /\ callIdx >= Len(dCalls)
    /\ bpc' = "done"
    /\ UNCHANGED <<bundle, disambiguate, toIa, mergeCommonNames, mergeCommonPrefixes,
                   mergePrefixes, dCalls, callIdx, count, usedNames, files,
                   nonBuildVars>>

(***************************************************************************)
(* The bundles buildExportFiles is run on: at most MaxCalls calls          *)
(* __d(<first argument>,<k>); where k is the position of the call, and     *)
(* the example of the specification.                                       *)
(***************************************************************************)
MaxCalls == 3

FirstArguments ==
    { <<SingleQuote, "A", SingleQuote>>,
      <<DoubleQuote, "A", DoubleQuote>>,
      <<SingleQuote, "A", "_", "2", SingleQuote>>,
      <<SingleQuote, "A", ".", "b", SingleQuote>>,
      <<"f">>,
      <<SingleQuote, "m", "o", "d", "u", "l", "e", "_", "1", SingleQuote>>,
      <<" ", SingleQuote, " ", "A", " ", SingleQuote>>,
      <<SingleQuote, ".", "A", SingleQuote>> }

CallText(arg, k) == Marker \o arg \o <<",">> \o Decimal(k) \o <<")", ";">>

RECURSIVE BundleOf(_, _)
\* the bundle whose k-th call has first argument args[k], for k in 1..n
BundleOf(args, n) ==
    IF n = 0 THEN <<>> ELSE BundleOf(args, n - 1) \o CallText(args[n], n)

\* __d('A',function(a,b){return 1;});__d('A',function(a,b){return 2;});
ExampleDuplicateA ==
    <<"_", "_", "d", "(", SingleQuote, "A", SingleQuote, ",", "f", "u", "n",
      "c", "t", "i", "o", "n", "(", "a", ",", "b", ")", "{", "r", "e", "t",
      "u", "r", "n", " ", "1", ";", "}", ")", ";", "_", "_", "d", "(",
      SingleQuote, "A", SingleQuote, ",", "f", "u", "n", "c", "t", "i", "o",
      "n", "(", "a", ",", "b", ")", "{", "r", "e", "t", "u", "r", "n", " ",
      "2", ";", "}", ")", ";">>

BuildInit ==
    /\ \/ \E n \in 0..MaxCalls : \E args \in [1..n -> FirstArguments] :
            bundle = BundleOf(args, n)
       \/ bundle = ExampleDuplicateA
    /\ disambiguate \in BOOLEAN
    /\ toIa = FALSE
    /\ mergeCommonNames = FALSE
    /\ mergeCommonPrefixes = NoList
    /\ mergePrefixes = <<>>
    /\ dCalls = <<>>
    /\ callIdx = 0
    /\ count = 0
    /\ usedNames = <<>>
    /\ files = <<>>
    /\ bpc = "start"

BuildNext ==
    \/ BuildStart
    \/ \E min \in MinifyOutcomes : BuildFile(min)
    \/ BuildReturn

\* C5: with disambiguation on, no two ExportFiles of one run have the same
\* relative path.
C5_PathsPairwiseDistinct ==
    disambiguate =>
        \A i, j \in DOMAIN files : i # j => files[i].fileName # files[j].fileName

\* the base name of the i-th call, from its declared name or, without a usable
\* one, from the number of calls without one up to it
BaseNameOf(i) ==
    IF IsUsableName(RawName(dCalls[i]))
    THEN Sanitize(RawName(dCalls[i]))
    ELSE SyntheticName(Cardinality({h \in 1..i : ~IsUsableName(RawName(dCalls[h]))}))

\* C6: with disambiguation on, the files are in source order, the j-th file
\* holds the text of the j-th call, and it is named <base>.js if it is the
\* first call with its base name and <base>_<k>.js if it is the k-th, k >= 2.
C6_OccurrenceSuffix ==
    disambiguate =>
        /\ Len(files) = callIdx
        /\ bpc = "done" => Len(files) = Len(dCalls)
        /\ \A j \in DOMAIN files :
              LET k == Cardinality({i \in 1..j : BaseNameOf(i) = BaseNameOf(j)})
              IN  /\ files[j].content = dCalls[j]
                  /\ files[j].fileName =
                        IF k = 1 THEN JsFile(BaseNameOf(j))
                        ELSE JsFile(BaseNameOf(j) \o <<"_">> \o Decimal(k))

\* C6 witness: the example of the specification, two calls declaring A, gives
\* A.js with the first call's text and A_2.js with the second's
C6_Witness ==
    /\ bundle = ExampleDuplicateA
    /\ disambiguate
    /\ bpc = "done"
    /\ Len(files) = 2
    /\ files[1] = [fileName |-> <<"A", ".", "j", "s">>,
                   content  |-> Slice(bundle, 0, 34)]
    /\ files[2] = [fileName |-> <<"A", "_", "2", ".", "j", "s">>,
                   content  |-> Slice(bundle, 34, 68)]

\* the calls among the first k that have no usable declared name
Unnamed(k) == {h \in 1..k : ~IsUsableName(RawName(dCalls[h]))}

\* C24: the counter of synthetic names is 0 when a run starts and always
\* equals the number of calls handled so far that have no usable declared
\* name; the n-th such call is named module_<n>, and its file carries that
\* name, followed by an occurrence suffix only when disambiguation calls for
\* one.
C24_SyntheticNamesCountUp ==
    /\ bpc = "start" => count = 0
    /\ bpc # "start" => count = Cardinality(Unnamed(callIdx))
    /\ \A j \in DOMAIN files :
          j \in Unnamed(j) =>
              LET name == SyntheticName(Cardinality(Unnamed(j)))
              IN  /\ StartsWith(files[j].fileName, name)
                  /\ ~disambiguate => files[j].fileName = JsFile(name)

\* C24 witness: of three calls the first and the third have no usable name,
\* and the third is module_2 although it is the third call
C24_Witness ==
    /\ bpc = "done"
    /\ ~disambiguate
    /\ Len(dCalls) = 3
    /\ Unnamed(3) = {1, 3}
    /\ count = 2
    /\ files[1].fileName = JsFile(SyntheticName(1))
    /\ files[3].fileName = JsFile(SyntheticName(2))

(***************************************************************************)
(* The bundles buildExportFiles groups: at most MaxGroupCalls calls whose  *)
(* first arguments are declared names, with and without a list of          *)
(* prefixes, and the example of two calls declaring A.                     *)
(***************************************************************************)
MaxGroupCalls == 4

WAWebFooBar == WAWeb \o <<"F", "o", "o", "B", "a", "r">>
WAWebFooBaz == WAWeb \o <<"F", "o", "o", "B", "a", "z">>
Unrelated   == <<"U", "n", "r", "e", "l", "a", "t", "e", "d">>

\* the names of the example of the specification, Unr.FooBax, FooBar and A/b
GroupNames ==
    { WAWebFooBar, WAWebFooBaz, Unrelated,
      <<"U", "n", "r", ".", "F", "o", "o", "B", "a", "x">>,
      <<"F", "o", "o", "B", "a", "r">>,
      <<"A", "/", "b">> }

\* explicit prefix lists: WAWebFooBa, WAWeb alone, A/ and ..
ExplicitLists ==
    { <<WAWeb \o <<"F", "o", "o", "B", "a">>>>, <<WAWeb>>,
      <<<<"A", "/">>, <<".", ".">>>> }

Quoted(name) == <<SingleQuote>> \o name \o <<SingleQuote>>

GroupInit ==
    /\ \/ \E n \in 0..MaxGroupCalls : \E names \in [1..n -> GroupNames] :
            /\ bundle = BundleOf([k \in 1..n |-> Quoted(names[k])], n)
            /\ toIa = FALSE
       \/ /\ bundle = ExampleDuplicateA
          /\ toIa \in BOOLEAN
    /\ disambiguate \in BOOLEAN
    /\ mergeCommonNames \in BOOLEAN
    /\ mergeCommonPrefixes \in
          {NoList} \cup {[isNull |-> FALSE, list |-> l] : l \in ExplicitLists \cup {<<>>}}
    /\ mergeCommonNames = FALSE => mergeCommonPrefixes = NoList
    /\ mergePrefixes = <<>>
    /\ dCalls = <<>>
    /\ callIdx = 0
    /\ count = 0
    /\ usedNames = <<>>
    /\ files = <<>>
    /\ bpc = "start"

\* the position of the "/" of a relative path with a directory, or 0
SlashOf(relPath) ==
    IF \E k \in DOMAIN relPath : relPath[k] = "/"
    THEN CHOOSE k \in DOMAIN relPath : relPath[k] = "/" /\ \A h \in 1..(k - 1) : relPath[h] # "/"
    ELSE 0

DirOf(relPath) == SubSeq(relPath, 1, SlashOf(relPath) - 1)

\* C16: two files that buildExportFiles puts into the same cluster directory
\* belong to modules whose normalized names share a prefix of at least
\* MinPrefixLen characters.
C16_ClusterMatesSharePrefix ==
    \A i, j \in DOMAIN files :
        (SlashOf(files[i].fileName) > 0
            /\ SlashOf(files[j].fileName) > 0
            /\ DirOf(files[i].fileName) = DirOf(files[j].fileName)) =>
        CommonLen(normalizeForMerge(RawName(dCalls[i])),
                  normalizeForMerge(RawName(dCalls[j])), 0) >= MinPrefixLen

DeclaredNames == {RawName(dCalls[k]) : k \in {h \in DOMAIN dCalls : IsUsableName(RawName(dCalls[h]))}}

\* C17: every prefix that computeMergePrefixes returns for the declared names
\* of the bundle has at least MinPrefixLen characters, at least MinMembers
\* of the names start with it, and pickMergeDir assigns at least MinMembers of
\* the names to it.
C17_ClustersHaveMinMembers ==
    (bpc # "start" /\ mergeCommonNames /\ mergeCommonPrefixes = NoList) =>
        \A k \in DOMAIN mergePrefixes :
            LET p == mergePrefixes[k]
            IN  /\ Len(p.norm) >= MinPrefixLen
                /\ Cardinality({n \in DeclaredNames :
                       StartsWith(normalizeForMerge(n), p.norm)}) >= MinMembers
                /\ Cardinality({n \in DeclaredNames :
                       PickedPrefix(n, mergePrefixes) = <<p>>}) >= MinMembers

\* the candidates of computeMergePrefixes for the declared names of the
\* bundle, in the order in which the selection loop visits them
MergeCandidates ==
    LET rawNames == RawNamesForMerge(dCalls, Len(dCalls))
    IN  IF Len(rawNames) < MinMembers THEN <<>>
        ELSE Candidates(PairLoop(MergeItems(rawNames, MinPrefixLen), 1, 2, <<>>,
                                 MinPrefixLen),
                        MinMembers)

MembersOf(cand) == {cand.members[h] : h \in DOMAIN cand.members}

\* C28: the candidates are visited from the longest prefix to the shortest,
\* and a candidate is left out of the result of computeMergePrefixes only if
\* each of its members belongs to a candidate visited before it that was
\* selected.
C28_SkippedOnlyWhenFullyClaimed ==
    (bpc # "start" /\ mergeCommonNames /\ mergeCommonPrefixes = NoList) =>
        LET cands    == MergeCandidates
            selected == {mergePrefixes[k].norm : k \in DOMAIN mergePrefixes}
        IN  \A k \in DOMAIN cands :
                /\ k < Len(cands) => Len(cands[k].prefix) >= Len(cands[k + 1].prefix)
                /\ cands[k].prefix \notin selected =>
                      \A m \in MembersOf(cands[k]) :
                          \E h \in 1..(k - 1) :
                              /\ cands[h].prefix \in selected
                              /\ m \in MembersOf(cands[h])

\* the positions of the prefixes that text starts with
MatchingPrefixes(text, prefixes) ==
    {k \in DOMAIN prefixes : StartsWith(text, prefixes[k].norm)}

\* the first of the longest prefixes that text starts with
LongestMatch(text, prefixes) ==
    LET ks == MatchingPrefixes(text, prefixes)
    IN  prefixes[CHOOSE k \in ks :
                    \A h \in ks : \/ Len(prefixes[h].norm) < Len(prefixes[k].norm)
                                  \/ (Len(prefixes[h].norm) = Len(prefixes[k].norm) /\ k <= h)]

\* the part of a normalized name after its last dot, the name itself when it
\* has no dot after its first character
AfterLastDot(norm) ==
    IF \E k \in 2..Len(norm) : norm[k] = "."
    THEN LET d == CHOOSE k \in 2..Len(norm) :
                      norm[k] = "." /\ \A h \in (k + 1)..Len(norm) : norm[h] # "."
         IN  SubSeq(norm, d + 1, Len(norm))
    ELSE norm

\* C29: the file of a module with a usable declared name is put into the
\* directory of one prefix or into none: the longest prefix that the part of
\* the normalized name after its last dot starts with; if there is no dot or
\* no such prefix, the longest prefix the normalized name starts with; and if
\* there is none either, the file stays outside the directories.
C29_DottedSuffixThenFullName ==
    mergeCommonNames =>
        \A j \in DOMAIN files :
            LET rawName == RawName(dCalls[j])
                norm    == normalizeForMerge(rawName)
                suffix  == AfterLastDot(norm)
                dir     == DirOf(files[j].fileName)
            IN  IsUsableName(rawName) =>
                    IF MatchingPrefixes(suffix, mergePrefixes) # {}
                    THEN /\ SlashOf(files[j].fileName) > 0
                         /\ dir = safeNameComponent(LongestMatch(suffix, mergePrefixes).raw)
                    ELSE IF MatchingPrefixes(norm, mergePrefixes) # {}
                    THEN /\ SlashOf(files[j].fileName) > 0
                         /\ dir = safeNameComponent(LongestMatch(norm, mergePrefixes).raw)
                    ELSE SlashOf(files[j].fileName) = 0

\* C29 witness: Unr.FooBax is put into WAWebFooBa, the directory of the
\* prefix FooBa that the part after its dot starts with, although the prefix
\* Unr, which the whole name starts with, was computed as well; Unrelated is
\* put into Unr
C29_Witness ==
    /\ bpc = "done"
    /\ mergeCommonNames
    /\ mergeCommonPrefixes = NoList
    /\ Len(mergePrefixes) = 2
    /\ Len(files) = 4
    /\ RawName(dCalls[4]) = <<"U", "n", "r", ".", "F", "o", "o", "B", "a", "x">>
    /\ DirOf(files[4].fileName) = WAWeb \o <<"F", "o", "o", "B", "a">>
    /\ RawName(dCalls[3]) = Unrelated
    /\ DirOf(files[3].fileName) = <<"U", "n", "r">>

\* C19: with toIa off, buildExportFiles returns one file per call that
\* extractDCalls found, in source order, and the content of the k-th file is
\* the text of the k-th call, unchanged.
C19_ContentIsCallText ==
    ~toIa =>
        /\ bpc # "start" => dCalls = extractDCalls(bundle)
        /\ Len(files) = callIdx
        /\ bpc = "done" => Len(files) = Len(dCalls)
        /\ \A k \in DOMAIN files : files[k].content = dCalls[k]

\* C19 witness: the two calls of the example, whose texts formatForIA would
\* change, are returned as they stand in the bundle
C19_Witness ==
    /\ ~toIa
    /\ bpc = "done"
    /\ bundle = ExampleDuplicateA
    /\ Len(files) = 2
    /\ files[1].content = Slice(bundle, 0, 34)
    /\ files[2].content = Slice(bundle, 34, 68)
    /\ formatForIA(files[1].content) # files[1].content

\* the part of a relative path after its directory
FileOf(relPath) == SubSeq(relPath, SlashOf(relPath) + 1, Len(relPath))

IsSafeName(name) == name # <<>> /\ \A k \in DOMAIN name : IsNameChar(name[k])

\* C20: every relative path is <safeName>.js or <clusterDir>/<safeName>.js,
\* safeName and clusterDir being non-empty and made of letters, digits and
\* the characters _ - [ ] only.
C20_PathsAreSafe ==
    \A k \in DOMAIN files :
        LET relPath == files[k].fileName
            file    == FileOf(relPath)
        IN  /\ Len(file) > 3
            /\ SubSeq(file, Len(file) - 2, Len(file)) = <<".", "j", "s">>
            /\ IsSafeName(SubSeq(file, 1, Len(file) - 3))
            /\ SlashOf(relPath) > 0 => IsSafeName(DirOf(relPath))

\* C20 witness: with the prefix list A/ and .. the module A/b is put into
\* the directory A_ as A_b.js
C20_Witness ==
    /\ bpc = "done"
    /\ mergeCommonPrefixes = [isNull |-> FALSE, list |-> <<<<"A", "/">>, <<".", ".">>>>]
    /\ \E k \in DOMAIN files :
          files[k].fileName = <<"A", "_", "/", "A", "_", "b", ".", "j", "s">>

(***************************************************************************)
(* WorkerPool and the worker thread's handle                               *)
(*                                                                         *)
(* A request is known by its id; its bundle is abstracted to the number of *)
(* ExportFiles that buildExportFiles returns for it.  A message is a       *)
(* record [id, kind, files], files being msg.files.length of a chunk.      *)
(***************************************************************************)
BATCH_SIZE == 100

\* the limit of runWithConcurrency(msg.files, 20, ...)
WriteLimit == 20

ChunkMsg(id, n) == [id |-> id, kind |-> "chunk", files |-> n]
DoneMsg(id)     == [id |-> id, kind |-> "done", files |-> 0]
ErrorMsg(id)    == [id |-> id, kind |-> "error", files |-> 0]

RECURSIVE BatchLoop(_, _, _, _)
\* handle: the for-loop over the remaining files with batch.length = batch,
\* taken from one flush to the next (file by file it is HandlePush); acc
\* holds the chunks flushed so far
BatchLoop(id, remaining, batch, acc) ==
    IF batch + remaining < BATCH_SIZE
    THEN [batch |-> batch + remaining, posts |-> acc]
    ELSE BatchLoop(id, remaining - (BATCH_SIZE - batch), 0,
                   Append(acc, ChunkMsg(id, BATCH_SIZE)))

\* flush() after the loop: nothing is posted for an empty batch
FinalFlush(id, loop) ==
    IF loop.batch = 0 THEN loop.posts
    ELSE Append(loop.posts, ChunkMsg(id, loop.batch))

\* what handle posts when it runs to its end for n files
CompletedPosts(id, n) ==
    Append(FinalFlush(id, BatchLoop(id, n, 0, <<>>)), DoneMsg(id))

\* mutant of ThrownPosts: 'done' is posted after the 'error' as well
ThrownPosts_AlsoDone(id, j) ==
    BatchLoop(id, j, 0, <<>>).posts \o <<ErrorMsg(id), DoneMsg(id)>>

\* what the handler posts when handle throws after j files were batched (j = 0
\* includes a rejection of buildExportFiles): the chunks flushed so far, then
\* the 'error' of the catch block
ThrownPosts(id, j) ==
    Append(BatchLoop(id, j, 0, <<>>).posts, ErrorMsg(id))

Kinds(posts) == [k \in 1..Len(posts) |-> posts[k].kind]

\* the task's writeChain: the callbacks attached and not yet run (steps), the
\* runWithConcurrency call of the running chunk callback as counters (n files,
\* the shared nextIdx, the writes in flight), and whether the chain rejected
NoRun == [n |-> 0, nextIdx |-> 0, inflight |-> 0]

\* writeChain: Promise.resolve()
NewChain == [steps |-> <<>>, run |-> NoRun, rejected |-> FALSE]

\* mutant of ChainPending: a callback does not wait for the one before it
ChainPending_Never(c) == FALSE

\* the promise t.writeChain is pending: a chunk callback is running its writes
ChainPending(c) == c.run.inflight > 0 /\ ~c.rejected

\* t.writeChain = t.writeChain.then(async () => runWithConcurrency(...))
AttachWrite(c, n) == [c EXCEPT !.steps = Append(@, [kind |-> "chunk", files |-> n])]

\* mutant of AttachDone: no callback is attached for 'done'
AttachDone_Dropped(c) == c

\* mutant of AttachDone: the callback does not wait for the callbacks attached
\* before it
AttachDone_AheadOfWrites(c) ==
    [c EXCEPT !.steps = <<[kind |-> "done", files |-> 0]>> \o @]

\* t.writeChain.then(resolve...).catch(reject...)
AttachDone(c) == [c EXCEPT !.steps = Append(@, [kind |-> "done", files |-> 0])]

\* runWithConcurrency(msg.files, 20, ...) called: each runner takes an index and
\* starts its write
StartRun(n) ==
    [n |-> n, nextIdx |-> RunnerCount(n, 2 * WriteLimit),
     inflight |-> RunnerCount(n, 2 * WriteLimit)]

\* mutant of DoneOutcome: the callbacks of 'done' resolve the task whatever
\* became of the chain
DoneOutcome_AlwaysResolve(c) == "resolve"

\* the callbacks of 'done': then() resolves the task, catch() rejects it with
\* the error the chain rejected with
DoneOutcome(c) == IF c.rejected THEN "reject" ELSE "resolve"

RECURSIVE Pump(_)
\* The promise jobs that run once the chain is not pending: a chunk callback
\* starts its writes (and the chain is pending again), is skipped when the
\* chain has rejected; the callbacks of 'done' settle the task.
Pump(c) ==
    IF ChainPending(c) \/ c.steps = <<>>
    THEN [chain |-> c, settle |-> "none", started |-> 0]
    ELSE LET s    == Head(c.steps)
             rest == [c EXCEPT !.steps = Tail(@)]
         IN  IF s.kind = "done"
             THEN [chain |-> rest,
                   settle |-> DoneOutcome(c),
                   started |-> 0]
             ELSE IF c.rejected THEN Pump(rest)
             ELSE [chain |-> [rest EXCEPT !.run = StartRun(s.files)],
                   settle |-> "none",
                   started |-> StartRun(s.files).inflight]

MaxRequests == 2
MaxWorkers  == 2
MaxCrashes  == 1
MaxExtraFiles == 1
MaxWriteFailures == 1

RequestIds == 1..MaxRequests
WorkerIdxs == 0..(MaxWorkers - 1)

\* the number of ExportFiles of a bundle: a few, or one more than a chunk holds
FileCounts == (0..MaxExtraFiles) \cup {BATCH_SIZE + 1}

\* the files of all requests together
MaxFiles == BATCH_SIZE + 1 + MaxExtraFiles

RECURSIVE FilesOf(_)
FilesOf(ids) ==
    IF ids = {} THEN 0
    ELSE LET id == CHOOSE x \in ids : TRUE
         IN  request[id].files + FilesOf(ids \ {id})

NoCause == [kind |-> "none", worker |-> -1]

RECURSIVE FailuresOf(_)
FailuresOf(ids) ==
    IF ids = {} THEN 0
    ELSE LET id == CHOOSE x \in ids : TRUE
         IN  ledger[id].failed + FailuresOf(ids \ {id})

\* mutant of Settle: the entry stays in the task table
Settle_KeepsEntry(id, how, why) ==
    /\ tasks' = tasks
    /\ promise' = IF how = "none" \/ promise[id] # "pending" THEN promise
                  ELSE [promise EXCEPT ![id] =
                           IF how = "resolve" THEN "resolved" ELSE "rejected"]
    /\ cause' = IF how = "reject" /\ promise[id] = "pending"
                THEN [cause EXCEPT ![id] = why] ELSE cause

\* t.resolve() / t.reject(e) with this.tasks.delete(id); settling a settled
\* promise has no effect
Settle(id, how, why) ==
    /\ tasks' = IF how = "none" THEN tasks ELSE tasks \ {id}
    /\ promise' = IF how = "none" \/ promise[id] # "pending" THEN promise
                  ELSE [promise EXCEPT ![id] =
                           IF how = "resolve" THEN "resolved" ELSE "rejected"]
    /\ cause' = IF how = "reject" /\ promise[id] = "pending"
                THEN [cause EXCEPT ![id] = why] ELSE cause

\* mutant of NextWorkerIdx: the index is not advanced
NextWorkerIdx_Stays(w, n) == w

\* (this.nextWorkerIdx + 1) % this.workers.length
NextWorkerIdx(w, n) == (w + 1) % n

\* process(bundle, outDir, opts) up to its await p
Process(n) ==
    /\ nextTaskId <= MaxRequests
    /\ FilesOf(1..(nextTaskId - 1)) + n <= MaxFiles
    /\ LET id == nextTaskId
           w  == nextWorkerIdx
       IN  /\ nextTaskId' = id + 1
           /\ tasks' = tasks \cup {id}
           /\ promise' = [promise EXCEPT ![id] = "pending"]
           /\ chain' = [chain EXCEPT ![id] = NewChain]
           /\ request' = [request EXCEPT ![id] = [worker |-> w, files |-> n]]
           /\ nextWorkerIdx' = NextWorkerIdx(w, workerCount)
           /\ inbox' = [inbox EXCEPT ![w] = Append(@, id)]
           /\ handler' = [handler EXCEPT ![id] = "queued"]
    /\ UNCHANGED <<workerCount, port, crash, posted, ledger, cause, nonPoolVars>>

\* worker thread: the 'message' handler starts and awaits buildExportFiles
WorkerReceives(w) ==
    /\ crash[w] = "no"
    /\ inbox[w] # <<>>
    /\ handler' = [handler EXCEPT ![Head(inbox[w])] = "running"]
    /\ inbox' = [inbox EXCEPT ![w] = Tail(@)]
    /\ UNCHANGED <<workerCount, nextWorkerIdx, nextTaskId, tasks, promise, chain,
                   port, crash, request, posted, ledger, cause, nonPoolVars>>

\* the handler's posts reach the worker's port in order
HandlerPosts(id, posts) ==
    /\ handler[id] = "running"
    /\ crash[request[id].worker] = "no"
    /\ port' = [port EXCEPT ![request[id].worker] = @ \o posts]
    /\ posted' = [posted EXCEPT ![id] = @ \o Kinds(posts)]
    /\ handler' = [handler EXCEPT ![id] = "finished"]
    /\ UNCHANGED <<workerCount, nextWorkerIdx, nextTaskId, tasks, promise, chain,
                   inbox, crash, request, ledger, cause, nonPoolVars>>

\* worker thread: buildExportFiles resolved; the rest of handle is synchronous
HandleCompletes(id) ==
    /\ id < nextTaskId
    /\ HandlerPosts(id, CompletedPosts(id, request[id].files))

\* worker thread: handle throws after j files and the catch block posts 'error'
HandleThrows(id, j) ==
    /\ id < nextTaskId
    /\ j <= request[id].files
    /\ HandlerPosts(id, ThrownPosts(id, j))

\* An uncaught exception ends worker w: the requests it holds are never
\* answered, and the main thread will get the worker's 'error' event.
WorkerCrashes(w) ==
    /\ w < workerCount
    /\ crash[w] = "no"
    /\ Cardinality({v \in WorkerIdxs : crash[v] # "no"}) < MaxCrashes
    /\ crash' = [crash EXCEPT ![w] = "raised"]
    /\ inbox' = [inbox EXCEPT ![w] = <<>>]
    /\ handler' = [id \in RequestIds |->
                      IF handler[id] \in {"queued", "running"} /\ request[id].worker = w
                      THEN "lost" ELSE handler[id]]
    /\ UNCHANGED <<workerCount, nextWorkerIdx, nextTaskId, tasks, promise, chain,
                   port, request, posted, ledger, cause, nonPoolVars>>

\* onWorkerError for the 'error' event of worker w
OnWorkerError(w) ==
    /\ crash[w] = "raised"
    /\ crash' = [crash EXCEPT ![w] = "handled"]
    /\ tasks' = {}
    /\ promise' = [id \in RequestIds |->
                      IF id \in tasks /\ promise[id] = "pending"
                      THEN "rejected" ELSE promise[id]]
    /\ cause' = [id \in RequestIds |->
                    IF id \in tasks /\ promise[id] = "pending"
                    THEN [kind |-> "crash", worker |-> w] ELSE cause[id]]
    /\ UNCHANGED <<workerCount, nextWorkerIdx, nextTaskId, chain, inbox, port,
                   request, handler, posted, ledger, nonPoolVars>>

\* mutant of RejectByMessage: every task of the table is rejected, as
\* onWorkerError does
RejectByMessage_EveryTask(id, w) ==
    /\ tasks' = {}
    /\ promise' = [o \in RequestIds |->
                      IF o \in tasks /\ promise[o] = "pending"
                      THEN "rejected" ELSE promise[o]]
    /\ cause' = [o \in RequestIds |->
                    IF o \in tasks /\ promise[o] = "pending"
                    THEN [kind |-> "message", worker |-> w] ELSE cause[o]]
    /\ UNCHANGED <<chain, ledger>>

\* onMessage, msg.kind === 'error': the task is deleted and rejected; its
\* writeChain is left to itself
RejectByMessage(id, w) ==
    /\ Settle(id, "reject", [kind |-> "message", worker |-> w])
    /\ UNCHANGED <<chain, ledger>>

\* onMessage for the next message of worker w
OnMessage(w) ==
    /\ port[w] # <<>>
    /\ port' = [port EXCEPT ![w] = Tail(@)]
    /\ LET msg == Head(port[w])
           id  == msg.id
       IN  IF id \notin tasks
           THEN UNCHANGED <<tasks, promise, cause, chain, ledger>>
           ELSE IF msg.kind = "error"
           THEN RejectByMessage(id, w)
           ELSE LET c == IF msg.kind = "chunk"
                         THEN AttachWrite(chain[id], msg.files)
                         ELSE AttachDone(chain[id])
                    p == Pump(c)
                IN  /\ chain' = [chain EXCEPT ![id] = p.chain]
                    /\ ledger' = [ledger EXCEPT
                          ![id].received = @ + msg.files,
                          ![id].taken = @ + p.started,
                          ![id].early = @ \/ (msg.kind = "done" /\ ChainPending(chain[id]))]
                    /\ Settle(id, p.settle, [kind |-> "write", worker |-> w])
    /\ UNCHANGED <<workerCount, nextWorkerIdx, nextTaskId, inbox, crash, request,
                   handler, posted, nonPoolVars>>

\* A write of request id (fs.mkdir and fs.writeFile) resolved: its runner takes
\* the next index and starts that write, or returns when there is none; when
\* the last runner returns the chunk callback resolves and the chain goes on.
WriteSucceeds(id) ==
    /\ chain[id].run.inflight > 0
    /\ LET c    == chain[id]
           more == c.run.nextIdx < c.run.n
           c2   == [c EXCEPT !.run.nextIdx = @ + 1,
                             !.run.inflight = IF more THEN @ ELSE @ - 1]
           p    == Pump(c2)
       IN  /\ chain' = [chain EXCEPT ![id] = p.chain]
           /\ ledger' = [ledger EXCEPT
                 ![id].taken = @ + (IF more THEN 1 ELSE 0) + p.started]
           /\ Settle(id, p.settle, [kind |-> "write", worker |-> request[id].worker])
    /\ UNCHANGED <<workerCount, nextWorkerIdx, nextTaskId, inbox, port, crash,
                   request, handler, posted, nonPoolVars>>

\* A write of request id rejected: its runner ends, runWithConcurrency and the
\* chain reject, the callbacks of later chunks are skipped, and the other
\* runners go on with their writes.
WriteFails(id) ==
    /\ chain[id].run.inflight > 0
    /\ FailuresOf(RequestIds) < MaxWriteFailures
    /\ LET c  == chain[id]
           c2 == [c EXCEPT !.run.inflight = @ - 1, !.rejected = TRUE]
           p  == Pump(c2)
       IN  /\ chain' = [chain EXCEPT ![id] = p.chain]
           /\ ledger' = [ledger EXCEPT ![id].failed = @ + 1]
           /\ Settle(id, p.settle, [kind |-> "write", worker |-> request[id].worker])
    /\ UNCHANGED <<workerCount, nextWorkerIdx, nextTaskId, inbox, port, crash,
                   request, handler, posted, nonPoolVars>>

\* new WorkerPool(count)
PoolInit ==
    /\ workerCount \in 1..MaxWorkers
    /\ nextWorkerIdx = 0
    /\ nextTaskId = 1
    /\ tasks = {}
    /\ promise = [id \in RequestIds |-> "none"]
    /\ chain = [id \in RequestIds |-> NewChain]
    /\ inbox = [w \in WorkerIdxs |-> <<>>]
    /\ port = [w \in WorkerIdxs |-> <<>>]
    /\ crash = [w \in WorkerIdxs |-> "no"]
    /\ request = [id \in RequestIds |-> [worker |-> -1, files |-> 0]]
    /\ handler = [id \in RequestIds |-> "none"]
    /\ posted = [id \in RequestIds |-> <<>>]
    /\ ledger = [id \in RequestIds |->
                    [received |-> 0, taken |-> 0, failed |-> 0, early |-> FALSE]]
    /\ cause = [id \in RequestIds |-> NoCause]

PoolNext ==
    \/ \E n \in FileCounts : Process(n)
    \/ \E w \in WorkerIdxs : WorkerReceives(w)
    \/ \E id \in RequestIds : HandleCompletes(id)
    \/ \E id \in RequestIds : \E j \in 0..(BATCH_SIZE + 1) : HandleThrows(id, j)
    \/ \E w \in WorkerIdxs : WorkerCrashes(w)
    \/ \E w \in WorkerIdxs : OnWorkerError(w)
    \/ \E w \in WorkerIdxs : OnMessage(w)
    \/ \E id \in RequestIds : WriteSucceeds(id)
    \/ \E id \in RequestIds : WriteFails(id)

\* C7: the promise of process() is resolved only when every file of every
\* chunk of the request has been written: all chunks of the bundle's files were
\* received, every file of them was taken by a runner, no write is in flight
\* and none failed.
C7_ResolvedOnlyAfterAllWrites ==
    \A id \in RequestIds :
        promise[id] = "resolved" =>
            /\ ledger[id].received = request[id].files
            /\ ledger[id].taken = ledger[id].received
            /\ chain[id].run.inflight = 0
            /\ chain[id].steps = <<>>
            /\ ledger[id].failed = 0

\* C7 witness: a request of two chunks is resolved, and its 'done' had arrived
\* while its writes were still pending
C7_Witness ==
    \E id \in RequestIds :
        /\ promise[id] = "resolved"
        /\ request[id].files = BATCH_SIZE + 1
        /\ ledger[id].taken = BATCH_SIZE + 1
        /\ ledger[id].early

\* C8: a request rejected by the 'error' event of a worker was assigned to
\* that worker.
C8_CrashRejectsOnlyOwnRequests ==
    \A id \in RequestIds :
        cause[id].kind = "crash" => cause[id].worker = request[id].worker

\* C18: the i-th request of a pool of n workers, counted from 0, is posted to
\* worker i mod n, whatever became of the requests before it.
C18_RoundRobin ==
    \A id \in RequestIds :
        id < nextTaskId => request[id].worker = (id - 1) % workerCount

\* C18 witness: in a pool of two workers the second request went to worker 1
\* after the first was rejected, or in a pool of one worker it went to worker
\* 0 again while the first was still pending
C18_Witness ==
    /\ nextTaskId = 3
    /\ \/ workerCount = 2 /\ request[2].worker = 1 /\ promise[1] = "rejected"
       \/ workerCount = 1 /\ request[2].worker = 0 /\ promise[1] = "pending"

RECURSIVE FilesWaiting(_)
\* the files of the chunk callbacks that are attached to a chain and have
\* not run
FilesWaiting(steps) ==
    IF steps = <<>> THEN 0 ELSE Head(steps).files + FilesWaiting(Tail(steps))

\* C27: the writes of one request go chunk by chunk: never more than
\* WriteLimit writes of a request are in flight, and as long as no write of
\* it failed the files whose write was started are all files of the chunks
\* before the running one and the files taken from the running one, so the
\* writes in flight all belong to the running chunk.
C27_WritesChunkByChunk ==
    \A id \in RequestIds :
        id < nextTaskId =>
            LET c       == chain[id]
                started == ledger[id].received - FilesWaiting(c.steps)
            IN  /\ c.run.inflight <= WriteLimit
                /\ c.run.inflight <= c.run.n
                /\ ~c.rejected =>
                      ledger[id].taken = (started - c.run.n) + Min(c.run.nextIdx, c.run.n)

\* C27 witness: a request has WriteLimit writes of its first chunk in flight
\* while its second chunk waits, and at the same time the write of another
\* request is in flight
C27_Witness ==
    /\ nextTaskId = 3
    /\ chain[1].run.inflight = WriteLimit
    /\ chain[1].run.n = BATCH_SIZE
    /\ FilesWaiting(chain[1].steps) = 1
    /\ chain[2].run.inflight = 1
    /\ ledger[2].taken = 1

\* C33: every request is settled at most once and leaves the task table
\* exactly when it settles.  After every step the table holds the requests
\* whose promise is pending and no others (so it is empty once all have
\* settled); a promise that is resolved or rejected stays as it is; and
\* onMessage for an id that is not in the table changes no task, promise
\* or write chain.
C33_SettledOnceAndRemoved ==
    [][/\ tasks' = {id \in RequestIds : promise'[id] = "pending"}
       /\ \A id \in RequestIds :
             promise[id] \in {"resolved", "rejected"} => promise'[id] = promise[id]
       /\ \A w \in WorkerIdxs :
             (/\ port[w] # <<>>
              /\ port'[w] = Tail(port[w])
              /\ Head(port[w]).id \notin tasks)
             => UNCHANGED <<tasks, promise, cause, chain, ledger>>]_vars

\* C33 witness: request 1 was rejected by a worker's 'error' event while the
\* callbacks of its 'done' waited for its write; the write has ended since
\* and the callback has run, and the request is still rejected for the
\* crash.  Request 2 is resolved and the table is empty.
C33_Witness ==
    /\ nextTaskId = 3
    /\ tasks = {}
    /\ promise[1] = "rejected"
    /\ cause[1].kind = "crash"
    /\ ledger[1].early
    /\ chain[1].steps = <<>>
    /\ chain[1].run.inflight = 0
    /\ ledger[1].failed = 0
    /\ promise[2] = "resolved"

\* a request that was posted to a worker after the 'error' event of that
\* worker had been handled: the worker neither answers it nor raises an
\* event for it
Stranded(id) ==
    /\ handler[id] = "queued"
    /\ crash[request[id].worker] = "handled"

\* C34: every request eventually settles.  When its worker answers it with a
\* terminal message or raises its 'error' event after the request was
\* posted, and every write ends, a pending promise of process() is
\* eventually resolved or rejected.
C34_EveryRequestSettles ==
    \A id \in RequestIds :
        (promise[id] = "pending" /\ ~Stranded(id))
            ~> (promise[id] \in {"resolved", "rejected"})

\* C34 witness: a request of two chunks was resolved after its 'done' had
\* waited for the writes, and the other request was rejected by the 'error'
\* message of its handler
C34_Witness ==
    /\ nextTaskId = 3
    /\ promise[1] = "resolved"
    /\ request[1].files = BATCH_SIZE + 1
    /\ ledger[1].early
    /\ promise[2] = "rejected"
    /\ cause[2].kind = "message"

\* the handler of request id has run to its end: it has posted 'done'
PostedDone(id) ==
    /\ posted[id] # <<>>
    /\ posted[id][Len(posted[id])] = "done"

\* once the write chain of a request has rejected, no chunk callback starts
\* its writes: the chain stays rejected, the running chunk stays the same, and
\* a write is started only by a runner of that chunk taking its next file
NoLaterChunkStarts ==
    \A id \in RequestIds :
        chain[id].rejected =>
            /\ chain'[id].rejected
            /\ chain'[id].run.n = chain[id].run.n
            /\ chain'[id].run.nextIdx >= chain[id].run.nextIdx
            /\ ledger'[id].taken <= ledger[id].taken + 1
            /\ ledger'[id].taken > ledger[id].taken
                  => chain[id].run.nextIdx < chain[id].run.n

\* C35 as stated: after a write of a request failed, no write of a later
\* chunk is started, and the request whose handler posted 'done' is, once
\* settled, rejected with the write error.
C35_FailedWriteRejectsWithWriteError ==
    [][/\ NoLaterChunkStarts
       /\ \A id \in RequestIds :
             (ledger'[id].failed > 0 /\ PostedDone(id)' /\ promise'[id] # "pending")
             => (promise'[id] = "rejected" /\ cause'[id].kind = "write")]_vars

\* C35, amended: after a write of a request failed, no write of a later
\* chunk is started and the request is never resolved; the request whose
\* handler posted 'done' is, once settled, rejected, with the write error
\* or with the error of a worker's 'error' event that rejected it before.
C35_FailedWriteNeverResolves ==
    [][/\ NoLaterChunkStarts
       /\ \A id \in RequestIds :
             /\ ledger'[id].failed > 0 => promise'[id] # "resolved"
             /\ (ledger'[id].failed > 0 /\ PostedDone(id)' /\ promise'[id] # "pending")
                => (promise'[id] = "rejected" /\ cause'[id].kind \in {"write", "crash"})
             /\ cause'[id].kind = "write" => ledger'[id].failed > 0]_vars

\* C35 witness: a write of the first chunk of a request of two chunks failed;
\* the writes of the first chunk went on, none of the second chunk was
\* started, and the request is rejected with the write error
C35_Witness ==
    \E id \in RequestIds :
        /\ request[id].files = BATCH_SIZE + 1
        /\ ledger[id].received = BATCH_SIZE + 1
        /\ ledger[id].failed = 1
        /\ ledger[id].taken = BATCH_SIZE
        /\ chain[id].run.inflight = 0
        /\ chain[id].steps = <<>>
        /\ promise[id] = "rejected"
        /\ cause[id].kind = "write"

\* C36: an 'error' message rejects its own request and nothing else.  When
\* onMessage takes an 'error' message whose request is in the table, that
\* request is rejected with the message's error in the same step, whatever
\* writes of it are pending, and leaves the table; every other request keeps
\* its entry, its promise and its error, and no write chain changes.
C36_ErrorMessageRejectsOnlyItsRequest ==
    [][\A w \in WorkerIdxs :
          (/\ port[w] # <<>>
           /\ port'[w] = Tail(port[w])
           /\ Head(port[w]).kind = "error"
           /\ Head(port[w]).id \in tasks)
          => LET id == Head(port[w]).id
             IN  /\ promise'[id] = "rejected"
                 /\ cause'[id] = [kind |-> "message", worker |-> w]
                 /\ tasks' = tasks \ {id}
                 /\ \A o \in RequestIds \ {id} :
                       promise'[o] = promise[o] /\ cause'[o] = cause[o]
                 /\ UNCHANGED <<chain, ledger>>]_vars

\* C36 witness: request 1 was rejected by its 'error' message while
\* WriteLimit writes of its first chunk were in flight, and request 2 is
\* still in the table with its write in flight
C36_Witness ==
    /\ promise[1] = "rejected"
    /\ cause[1].kind = "message"
    /\ chain[1].run.inflight = WriteLimit
    /\ ledger[1].taken = WriteLimit
    /\ tasks = {2}
    /\ promise[2] = "pending"
    /\ chain[2].run.inflight = 1

WellFormedPosts(kinds) ==
    \A k \in 1..Len(kinds) : kinds[k] # "chunk" => k = Len(kinds)

\* C9: for every request the worker posts chunks and then one terminal
\* message: nothing follows a 'done' or an 'error', and a handler that has
\* finished has posted exactly one of them.
C9_ChunksThenOneTerminal ==
    \A id \in RequestIds :
        /\ WellFormedPosts(posted[id])
        /\ handler[id] = "finished" =>
              /\ posted[id] # <<>>
              /\ posted[id][Len(posted[id])] \in {"done", "error"}
        /\ handler[id] # "finished" => posted[id] = <<>>

\* C9 witness: one worker has answered two requests, the later one first: its
\* port holds the 'error' of request 2 and then two chunks and the 'done' of
\* request 1
C9_Witness ==
    /\ workerCount = 1
    /\ posted[1] = <<"chunk", "chunk", "done">>
    /\ posted[2] = <<"error">>
    /\ port[0] = <<ErrorMsg(2), ChunkMsg(1, BATCH_SIZE), ChunkMsg(1, 1), DoneMsg(1)>>

(***************************************************************************)
(* run for a single .js input: buildExportFiles runs in the main thread    *)
(* (inline) or in a worker (pool), then the files are written and the      *)
(* outcome is reported.  written counts the files written under outputDir. *)
(***************************************************************************)
NoModuleFound  == "No module found (marker __d( not found)."
ExportFinished == "Export finished. Files saved in: outputDir"

\* pool mode: handle has the files; it posts them in chunks and then 'done'
ExportWorkerPosts ==
    /\ epc = "build"
    /\ usePool
    /\ bpc = "done"
    /\ wire' = CompletedPosts(1, Len(files))
    /\ epc' = "posted"
    /\ UNCHANGED <<usePool, report, written, nonExportVars>>

\* pool mode: onMessage for a chunk, with the writes of its callback
ExportPoolChunk ==
    /\ epc = "posted"
    /\ wire # <<>>
    /\ Head(wire).kind = "chunk"
    /\ written' = written + Head(wire).files
    /\ wire' = Tail(wire)
    /\ UNCHANGED <<usePool, epc, report, nonExportVars>>

\* pool mode: onMessage for 'done' resolves the promise of process(), and run
\* goes on after await pool.process(...)
ExportPoolDone ==
    /\ epc = "posted"
    /\ wire # <<>>
    /\ Head(wire).kind = "done"
    /\ wire' = Tail(wire)
    /\ report' = Append(report, ExportFinished)
    /\ epc' = "returned"
    /\ UNCHANGED <<usePool, written, nonExportVars>>

\* inline mode: files.length === 0
ExportInlineEmpty ==
    /\ epc = "build"
    /\ ~usePool
    /\ bpc = "done"
    /\ files = <<>>
    /\ report' = Append(report, NoModuleFound)
    /\ epc' = "returned"
    /\ UNCHANGED <<usePool, wire, written, nonExportVars>>

\* inline mode: writeExportFiles(outputDir, files)
ExportInlineWrite ==
    /\ epc = "build"
    /\ ~usePool
    /\ bpc = "done"
    /\ files # <<>>
    /\ written' = written + Len(files)
    /\ report' = Append(report, ExportFinished)
    /\ epc' = "returned"
    /\ UNCHANGED <<usePool, wire, nonExportVars>>

MaxTextLen == 4

RECURSIVE TextsOver(_, _)
\* the texts of exactly n characters of the alphabet
TextsOver(alphabet, n) ==
    IF n = 0 THEN {<<>>}
    ELSE {Append(t, c) : t \in TextsOver(alphabet, n - 1), c \in alphabet}

\* the characters of the marker and a blank
MarkerAlphabet == {"_", "d", "(", " "}

ExportInit ==
    /\ usePool \in BOOLEAN
    /\ epc = "build"
    /\ wire = <<>>
    /\ report = <<>>
    /\ written = 0
    /\ \/ \E n \in 0..MaxTextLen : bundle \in TextsOver(MarkerAlphabet, n)
       \/ \E n \in 1..MaxCalls : \E arg \in FirstArguments :
             bundle = BundleOf([k \in 1..n |-> arg], n)
       \/ bundle \in ExampleSources
    /\ disambiguate = TRUE
    /\ toIa = FALSE
    /\ mergeCommonNames = FALSE
    /\ mergeCommonPrefixes = NoList
    /\ mergePrefixes = <<>>
    /\ dCalls = <<>>
    /\ callIdx = 0
    /\ count = 0
    /\ usedNames = <<>>
    /\ files = <<>>
    /\ bpc = "start"

ExportNext ==
    \/ BuildStart
    \/ \E min \in MinifyOutcomes : BuildFile(min)
    \/ BuildReturn
    \/ ExportWorkerPosts
    \/ ExportPoolChunk
    \/ ExportPoolDone
    \/ ExportInlineEmpty
    \/ ExportInlineWrite

\* C12: when the input holds no occurrence of the marker, the run reports
\* that no module was found, and only that, and writes no file, with and
\* without a pool.
C12_NoMarkerReportsNoModule ==
    (IndexOfMarker(bundle, 0) = -1 /\ epc = "returned") =>
        /\ report = <<NoModuleFound>>
        /\ written = 0
        /\ files = <<>>

(***************************************************************************)
(* run for a .json input: the output directory of each job                 *)
(*                                                                         *)
(* A URL is a record [valid, file]: whether new URL(url) succeeds, and the *)
(* last segment of its pathname.  An outDir is given relative to outputDir *)
(* (the empty path is outputDir itself).  The last segments used here are  *)
(* shorter than maxLen (80), so the branch that shortens a name with a     *)
(* hash is not modelled.                                                   *)
(***************************************************************************)
\* path.basename(u.pathname, path.extname(u.pathname)): a name that starts
\* with its only dot has no extension
BaseName(f) ==
    IF LastDot(f, Len(f)) <= 1 THEN f ELSE SubSeq(f, 1, LastDot(f, Len(f)) - 1)

\* `bundle_${fallbackIndex}`
FallbackDir(idx) == <<"b", "u", "n", "d", "l", "e", "_">> \o Decimal(idx)

safeDirNameFromUrl(url, fallbackIndex) ==
    IF ~url.valid THEN FallbackDir(fallbackIndex)
    ELSE LET cleaned == Trim(Sanitize(BaseName(url.file)))
         IN  IF cleaned = <<>> THEN FallbackDir(fallbackIndex) ELSE cleaned

\* const dirName = seen === 0 ? dirBase : `${dirBase}_${seen + 1}`
JobDirName(dirBase, seen) ==
    IF seen = 0 THEN dirBase ELSE dirBase \o <<"_">> \o Decimal(seen + 1)

\* one call of the callback of urls.map
JobMap ==
    /\ jpc = "map"
    /\ Len(jobs) < Len(urls)
    /\ LET idx     == Len(jobs)
           dirBase == safeDirNameFromUrl(urls[idx + 1], idx + 1)
           seen    == Seen(usedDirs, dirBase)
       IN  IF ~(~mergeNames /\ ~flat)
           THEN /\ jobs' = Append(jobs, <<>>)
                /\ UNCHANGED usedDirs
           ELSE /\ usedDirs' = MapSet(usedDirs, dirBase, seen + 1)
                /\ jobs' = Append(jobs, JobDirName(dirBase, seen))
    /\ UNCHANGED <<urls, mergeNames, flat, jpc, nonJobVars>>

\* urls.map has returned
JobsMapped ==
    /\ jpc = "map"
    /\ Len(jobs) = Len(urls)
    /\ jpc' = "mapped"
    /\ UNCHANGED <<urls, mergeNames, flat, usedDirs, jobs, nonJobVars>>

MaxUrls == 3

\* last segments: a.js, a.min.js, a_2.js, bundle_2.js, one without a name
UrlFiles ==
    { <<"a", ".", "j", "s">>,
      <<"a", ".", "m", "i", "n", ".", "j", "s">>,
      <<"a", "_", "2", ".", "j", "s">>,
      <<"b", "u", "n", "d", "l", "e", "_", "2", ".", "j", "s">>,
      <<>> }

Urls == {[valid |-> TRUE, file |-> f] : f \in UrlFiles}
            \cup {[valid |-> FALSE, file |-> <<>>]}

JobsInit ==
    /\ \E n \in 0..MaxUrls : urls \in [1..n -> Urls]
    /\ mergeNames \in BOOLEAN
    /\ flat \in BOOLEAN
    /\ usedDirs = <<>>
    /\ jobs = <<>>
    /\ jpc = "map"

JobsNext == JobMap \/ JobsMapped

\* C15: unless the job is flattened, no two bundles of a run have the same
\* output directory.
C15_BundleDirsDistinct ==
    ~flat => \A i, j \in DOMAIN jobs : i # j => jobs[i] # jobs[j]

(***************************************************************************)
(* handle, the worker's answer to one request, with the files told apart:  *)
(* the ExportFiles that buildExportFiles returned are 1..n in their order, *)
(* and a chunk message holds the files of its batch.                       *)
(***************************************************************************)
\* mutant of BatchIsFull: the batch is flushed one file late
BatchIsFull_OneLate(b) == Len(b) > BATCH_SIZE

\* batch.length >= BATCH_SIZE
BatchIsFull(b) == Len(b) >= BATCH_SIZE

\* flush(): nothing is posted for an empty batch
Flushed(b, posts) ==
    IF b = <<>> THEN [batch |-> b, posts |-> posts]
    ELSE [batch |-> <<>>, posts |-> Append(posts, [kind |-> "chunk", files |-> b])]

\* one iteration of for (const f of files)
HandlePush ==
    /\ hpc = "loop"
    /\ hNext < Len(hFiles)
    /\ LET b == Append(hBatch, hFiles[hNext + 1])
           r == IF BatchIsFull(b) THEN Flushed(b, hPosted)
                ELSE [batch |-> b, posts |-> hPosted]
       IN  /\ hBatch' = r.batch
           /\ hPosted' = r.posts
    /\ hNext' = hNext + 1
    /\ UNCHANGED <<hFiles, hpc, nonHandleVars>>

\* flush() after the loop
HandleFlush ==
    /\ hpc = "loop"
    /\ hNext >= Len(hFiles)
    /\ hBatch' = Flushed(hBatch, hPosted).batch
    /\ hPosted' = Flushed(hBatch, hPosted).posts
    /\ hpc' = "flush"
    /\ UNCHANGED <<hFiles, hNext, nonHandleVars>>

\* parentPort.postMessage(done)
HandleDone ==
    /\ hpc = "flush"
    /\ hPosted' = Append(hPosted, [kind |-> "done", files |-> <<>>])
    /\ hpc' = "done"
    /\ UNCHANGED <<hFiles, hNext, hBatch, nonHandleVars>>

MaxBatches == 2

\* handle after await buildExportFiles(...)
HandleInit ==
    /\ \E n \in 0..(MaxBatches * BATCH_SIZE + 1) : hFiles = [k \in 1..n |-> k]
    /\ hNext = 0
    /\ hBatch = <<>>
    /\ hPosted = <<>>
    /\ hpc = "loop"

HandleNext == HandlePush \/ HandleFlush \/ HandleDone

\* the chunks posted so far, in the order of posting
Chunks == SelectSeq(hPosted, LAMBDA msg : msg.kind = "chunk")

RECURSIVE FilesOfChunks(_, _)
\* the files of the first k chunks, one chunk after the other
FilesOfChunks(cs, k) ==
    IF k = 0 THEN <<>> ELSE FilesOfChunks(cs, k - 1) \o cs[k].files

\* C26: the chunks posted for a request hold its files in their order, every
\* file once: laid end to end they are the files handled so far that are not
\* in the batch, and all files once handle has posted 'done'; every chunk
\* holds between 1 and BATCH_SIZE files, and every chunk before the last holds
\* BATCH_SIZE.
C26_ChunksPartitionFiles ==
    /\ FilesOfChunks(Chunks, Len(Chunks)) = SubSeq(hFiles, 1, hNext - Len(hBatch))
    /\ hpc = "done" =>
          /\ FilesOfChunks(Chunks, Len(Chunks)) = hFiles
          /\ \A f \in 1..Len(hFiles) :
                Cardinality({k \in DOMAIN Chunks :
                                \E i \in DOMAIN Chunks[k].files : Chunks[k].files[i] = f}) = 1
    /\ \A k \in DOMAIN Chunks :
          /\ Len(Chunks[k].files) >= 1
          /\ Len(Chunks[k].files) <= BATCH_SIZE
          /\ k < Len(Chunks) => Len(Chunks[k].files) = BATCH_SIZE

\* C26 witness: the files of a request of two full batches and one more file
\* were posted in three chunks, the last one holding the last file
C26_Witness ==
    /\ hpc = "done"
    /\ Len(hFiles) = 2 * BATCH_SIZE + 1
    /\ Len(Chunks) = 3
    /\ Chunks[3].files = <<2 * BATCH_SIZE + 1>>
    /\ hPosted[4].kind = "done"

(***************************************************************************)
(* ModuleRegistry (src/import/metro-loader.ts)                             *)
(*                                                                         *)
(* A JavaScript value is a sequence of strings: a leaf, or "default"       *)
(* before the value of the own property default of an object.  The         *)
(* factories are those registerValue makes and factories that assign a     *)
(* value to module.exports or leave it alone; none of them calls require.  *)
(***************************************************************************)
Undefined    == <<"undefined">>
Null         == <<"null">>
\* a number, a function or a string
Constant1    == <<"constant">>
\* an object without a property default
PlainObject  == <<"object">>
\* the object require makes for module.exports
FreshExports == <<"exports">>

\* an object whose property default is v, as a module namespace object is
WithDefault(v) == <<"default">> \o v

\* x && typeof x === 'object' && 'default' in x
HasDefault(v) == Head(v) = "default"

\* 'default' in x ? x.default : x
Unwrapped(v) == IF HasDefault(v) THEN Tail(v) ELSE v

\* a factory that does not assign module.exports
Unassigned == <<"unassigned">>

ModuleNames == {"a", "b"}

\* the values handed to registerValue
RegisteredValues ==
    {Constant1, PlainObject, Undefined, Null, WithDefault(Constant1),
     WithDefault(Undefined)}

\* the values a loader or promise handed to registerAsync resolves to
LoadedValues == {PlainObject, WithDefault(Constant1), WithDefault(WithDefault(Constant1))}

MaxLoading == 1

NoRequire == <<>>

\* mutant of register: a later registration replaces the record
register_LastWins(map, name, assigns) ==
    [n \in DOMAIN map \cup {name} |->
        IF n = name
        THEN [assigns |-> assigns, exports |-> Undefined,
              normalized |-> Undefined, initialized |-> FALSE]
        ELSE map[n]]

\* register(name, factory), the factory given by what it assigns to
\* module.exports: a name that is in the map keeps its record
register(map, name, assigns) ==
    IF name \in DOMAIN map THEN map
    ELSE [n \in DOMAIN map \cup {name} |->
             IF n = name
             THEN [assigns |-> assigns, exports |-> Undefined,
                   normalized |-> Undefined, initialized |-> FALSE]
             ELSE map[n]]

\* registerValue(name, value): the factory assigns value
registerValue(map, name, value) == register(map, name, value)

NoteExpected(name, value) ==
    [n \in DOMAIN regExpected \cup {name} |->
        IF n = name THEN value ELSE regExpected[n]]

\* registry.register(name, factory)
Register(name, assigns) ==
    /\ regMap' = register(regMap, name, assigns)
    /\ regLast' = NoRequire
    /\ UNCHANGED <<regLoading, regExpected, loadVars, reqVars, nonRegVars>>

\* registry.registerValue(name, value)
RegisterValue(name, value) ==
    /\ regMap' = registerValue(regMap, name, value)
    /\ regExpected' = NoteExpected(name, value)
    /\ regLast' = NoRequire
    /\ UNCHANGED <<regLoading, loadVars, reqVars, nonRegVars>>

\* registry.registerAsync(name, valueOrLoader) up to its await
RegisterAsyncCall(name, val) ==
    /\ Len(regLoading) < MaxLoading
    /\ regLoading' = Append(regLoading, [name |-> name, val |-> val])
    /\ UNCHANGED <<regMap, regExpected, regLast, loadVars, reqVars, nonRegVars>>

Without(seq, k) == SubSeq(seq, 1, k - 1) \o SubSeq(seq, k + 1, Len(seq))

\* the awaited value arrived: it is unwrapped and registered
RegisterAsyncResolves(k) ==
    /\ k \in DOMAIN regLoading
    /\ LET name     == regLoading[k].name
           resolved == Unwrapped(regLoading[k].val)
       IN  /\ regMap' = registerValue(regMap, name, resolved)
           /\ regExpected' = NoteExpected(name, resolved)
    /\ regLoading' = Without(regLoading, k)
    /\ regLast' = NoRequire
    /\ UNCHANGED <<loadVars, reqVars, nonRegVars>>

\* the loader or promise rejected: registerAsync rejects and registers nothing
RegisterAsyncRejects(k) ==
    /\ k \in DOMAIN regLoading
    /\ regLoading' = Without(regLoading, k)
    /\ UNCHANGED <<regMap, regExpected, regLast, loadVars, reqVars, nonRegVars>>

\* module.exports ?? exports after the factory ran
RawExports(assigns) ==
    IF assigns \in {Unassigned, Undefined, Null} THEN FreshExports ELSE assigns

\* the record of name after the first require has run its factory
Initialized(rec) ==
    IF rec.initialized THEN rec
    ELSE [rec EXCEPT !.exports = RawExports(rec.assigns),
                     !.normalized = Unwrapped(RawExports(rec.assigns)),
                     !.initialized = TRUE]

\* rec.normalized !== undefined ? rec.normalized : rec.exports
Returned(rec) == IF rec.normalized # Undefined THEN rec.normalized ELSE rec.exports

\* registry.require(name)
Require(name) ==
    /\ IF name \notin DOMAIN regMap
       THEN /\ regLast' = [name |-> name, threw |-> TRUE, value |-> Undefined]
            /\ regMap' = regMap
       ELSE /\ regMap' = [regMap EXCEPT ![name] = Initialized(@)]
            /\ regLast' = [name |-> name, threw |-> FALSE,
                           value |-> Returned(Initialized(regMap[name]))]
    /\ UNCHANGED <<regLoading, regExpected, loadVars, reqVars, nonRegVars>>

\* new ModuleRegistry()
RegistryInit ==
    /\ regMap = <<>>
    /\ regLoading = <<>>
    /\ regExpected = <<>>
    /\ regLast = NoRequire

RegistryNext ==
    \/ \E name \in ModuleNames : \E assigns \in {Unassigned, PlainObject} :
          Register(name, assigns)
    \/ \E name \in ModuleNames : \E value \in RegisteredValues :
          RegisterValue(name, value)
    \/ \E name \in ModuleNames : \E val \in LoadedValues : RegisterAsyncCall(name, val)
    \/ \E k \in 1..MaxLoading : RegisterAsyncResolves(k)
    \/ \E k \in 1..MaxLoading : RegisterAsyncRejects(k)
    \/ \E name \in ModuleNames : Require(name)

\* C25: a require of a name returns the value of the last registerValue or
\* registerAsync of that name that completed before it.
C25_RequireReturnsRegistered ==
    (regLast # NoRequire /\ regLast.name \in DOMAIN regExpected) =>
        /\ ~regLast.threw
        /\ regLast.value = regExpected[regLast.name]

(***************************************************************************)
(* registerAll (src/import/register-modules.ts): the four synthetic        *)
(* modules are registered, then the modules of the list in their order.    *)
(* A factory is known by what it leaves in module.exports.  The set-up of  *)
(* the globals before the first register call is not modelled.             *)
(***************************************************************************)
ShimNames == {"Promise", "asyncToGeneratorRuntime", "err", "babelHelpers"}

\* what the factory of the synthetic module name exports
ShimExports(name) == <<"shim", name>>

FileTags == <<"1", "2", "3", "4">>

\* what the factory made of the file of the k-th entry exports
FileExports(k) == <<"file", FileTags[k]>>

MaxModules == 2

\* the names of the entries of modules
EntryNames == {"Promise", "babelHelpers", "m"}

\* the names the caller asks for while registerAll runs or after it
RequiredNames == {"Promise", "err", "m"}

\* the four register calls of the synthetic modules
RegisterShims(map) ==
    register(register(register(register(map,
        "Promise", ShimExports("Promise")),
        "asyncToGeneratorRuntime", ShimExports("asyncToGeneratorRuntime")),
        "err", ShimExports("err")),
        "babelHelpers", ShimExports("babelHelpers"))

\* registerAll up to the for-loop
LoadShims ==
    /\ rapc = "shims"
    /\ regMap' = RegisterShims(regMap)
    /\ rapc' = "modules"
    /\ regLast' = NoRequire
    /\ UNCHANGED <<regLoading, regExpected, raModules, raNext, raBefore, reqVars,
                   nonRegVars>>

\* one iteration of the for-loop: the file is read, its function expression
\* is made a factory and registered under the entry's name
LoadModule ==
    /\ rapc = "modules"
    /\ raNext < Len(raModules)
    /\ raModules[raNext + 1].ok
    /\ regMap' = register(regMap, raModules[raNext + 1].name, FileExports(raNext + 1))
    /\ raNext' = raNext + 1
    /\ regLast' = NoRequire
    /\ UNCHANGED <<regLoading, regExpected, raModules, raBefore, rapc, reqVars,
                   nonRegVars>>

\* readFile rejects or the file holds no function expression: registerAll
\* rejects and the entries after this one are not registered
LoadFails ==
    /\ rapc = "modules"
    /\ raNext < Len(raModules)
    /\ ~raModules[raNext + 1].ok
    /\ rapc' = "failed"
    /\ UNCHANGED <<regMap, regLoading, regExpected, regLast, raModules, raNext,
                   raBefore, reqVars, nonRegVars>>

\* the for-loop has ended: registerAll resolves
LoadDone ==
    /\ rapc = "modules"
    /\ raNext = Len(raModules)
    /\ rapc' = "done"
    /\ UNCHANGED <<regMap, regLoading, regExpected, regLast, raModules, raNext,
                   raBefore, reqVars, nonRegVars>>

\* the registries registerAll is called with: a new one, or one in which the
\* caller has registered a value, and may have required it
EarlierRegistries ==
    {<<>>}
    \cup {registerValue(<<>>, name, PlainObject) : name \in {"Promise", "m"}}
    \cup {[n \in {name} |-> Initialized(registerValue(<<>>, name, PlainObject)[name])] :
             name \in {"Promise", "m"}}

\* registerAll(registry, modules) is called
LoadInit ==
    /\ regMap \in EarlierRegistries
    /\ \E n \in 0..MaxModules :
          raModules \in [1..n -> [name : EntryNames, ok : BOOLEAN]]
    /\ raNext = 0
    /\ raBefore = DOMAIN regMap
    /\ rapc = "shims"
    /\ regLoading = <<>>
    /\ regExpected = <<>>
    /\ regLast = NoRequire

LoadNext ==
    \/ LoadShims
    \/ LoadModule
    \/ LoadFails
    \/ LoadDone
    \/ \E name \in RequiredNames : Require(name)

\* C37: register is first-wins.  No step removes a name from the registry
\* or gives it another factory, and the record of a module that has run is
\* not changed at all; a register call of the for-loop of registerAll for a
\* name that is registered leaves the registry as it is.  So, once
\* registerAll has registered the synthetic modules, each of their names
\* holds the synthetic factory, or the factory the caller had registered
\* before, whatever entries of that name the list holds.
C37_RegisterIsFirstWins ==
    [][/\ \A n \in DOMAIN regMap :
             /\ n \in DOMAIN regMap'
             /\ regMap'[n].assigns = regMap[n].assigns
             /\ regMap[n].initialized => regMap'[n] = regMap[n]
       /\ (raNext' = raNext + 1 /\ raModules[raNext + 1].name \in DOMAIN regMap)
             => regMap' = regMap
       /\ rapc' \in {"modules", "done", "failed"} =>
             \A n \in ShimNames :
                 /\ n \in DOMAIN regMap'
                 /\ n \notin raBefore => regMap'[n].assigns = ShimExports(n)
                 /\ n \in raBefore => regMap'[n].assigns = PlainObject]_vars

\* C37 witness: registerAll has run to its end with a list whose first entry
\* is named Promise; Promise is the synthetic module and had been required
\* before that entry was registered, and the second entry, m, is registered
C37_Witness ==
    /\ rapc = "done"
    /\ raBefore = {}
    /\ Len(raModules) = 2
    /\ raModules[1].name = "Promise"
    /\ regMap["Promise"].assigns = ShimExports("Promise")
    /\ regMap["Promise"].initialized
    /\ regMap["Promise"].exports = ShimExports("Promise")
    /\ regMap["m"].assigns = FileExports(2)
    /\ regLast = NoRequire

(***************************************************************************)
(* require with factories that call require (metro-loader.ts 67-95).       *)
(*                                                                         *)
(* The factory of a module requires the names of rqDeps in their order and *)
(* then returns or throws; the exports object require makes for the k-th   *)
(* execution of a factory is told apart by k.  No factory catches what a   *)
(* require call of its own throws, so an exception ends all executions on  *)
(* the stack.  The depth of the call stack is limited: MaxDepth stands for *)
(* the depth at which the engine throws its RangeError.                    *)
(***************************************************************************)
MaxDepth == 3
MaxThrows == 1
MaxRequires == 3

\* the names a factory requires
DepLists == {<<>>, <<"a">>, <<"b">>}

\* module.exports of the k-th execution of the factory of name
ExportsOf(name, k) == <<"exports", name>> \o [j \in 1..k |-> "I"]

Threw(name)       == [name |-> name, threw |-> TRUE, value |-> Undefined]
Gave(name, value) == [name |-> name, threw |-> FALSE, value |-> value]

\* an exception leaves require: every execution on the stack ends, no record
\* is marked initialized, and the caller's require call throws
Unwind ==
    /\ rqStack' = <<>>
    /\ rqGot' = Append(rqGot, Threw(rqStack[1].name))
    /\ UNCHANGED <<regMap, rqRuns>>

\* rec.factory(...) is called for name
Enter(name) ==
    /\ rqStack' = Append(rqStack, [name |-> name, next |-> 1])
    /\ rqRuns' = [rqRuns EXCEPT ![name] = @ + 1]
    /\ UNCHANGED <<regMap, rqGot>>

\* the caller calls registry.require(name)
RequireCall(name) ==
    /\ rqStack = <<>>
    /\ Len(rqGot) < MaxRequires
    /\ IF name \notin DOMAIN regMap
       THEN /\ rqGot' = Append(rqGot, Threw(name))
            /\ UNCHANGED <<regMap, rqStack, rqRuns>>
       ELSE IF regMap[name].initialized
       THEN /\ rqGot' = Append(rqGot, Gave(name, Returned(regMap[name])))
            /\ UNCHANGED <<regMap, rqStack, rqRuns>>
       ELSE Enter(name)
    /\ UNCHANGED <<regLoading, regExpected, regLast, rqDeps, rqThrows, loadVars,
                   nonRegVars>>

\* the factory that is running calls requireByName for its next dependency
FactoryRequires ==
    /\ rqStack # <<>>
    /\ LET top == rqStack[Len(rqStack)]
           dep == rqDeps[top.name][top.next]
       IN  /\ top.next <= Len(rqDeps[top.name])
           /\ IF dep \notin DOMAIN regMap THEN Unwind
              ELSE IF regMap[dep].initialized
              THEN /\ rqStack' = [rqStack EXCEPT ![Len(rqStack)].next = @ + 1]
                   /\ UNCHANGED <<regMap, rqRuns, rqGot>>
              ELSE IF Len(rqStack) >= MaxDepth THEN Unwind
              ELSE Enter(dep)
    /\ UNCHANGED <<regLoading, regExpected, regLast, rqDeps, rqThrows, loadVars,
                   nonRegVars>>

\* rec.exports = raw; rec.normalized = ...; rec.initialized = true
MarkInitialized(rec, raw) ==
    [rec EXCEPT !.exports = raw, !.normalized = Unwrapped(raw), !.initialized = TRUE]

\* the factory that is running returns: its record is filled and marked
\* initialized, and require returns to the factory that called it or to the
\* caller
FactoryReturns ==
    /\ rqStack # <<>>
    /\ LET d    == Len(rqStack)
           top  == rqStack[d]
           name == top.name
           rec  == MarkInitialized(regMap[name], ExportsOf(name, rqRuns[name]))
       IN  /\ top.next > Len(rqDeps[name])
           /\ rqRuns[name] > rqThrows[name]
           /\ regMap' = [regMap EXCEPT ![name] = rec]
           /\ IF d = 1
              THEN /\ rqStack' = <<>>
                   /\ rqGot' = Append(rqGot, Gave(name, Returned(rec)))
              ELSE /\ rqStack' = [SubSeq(rqStack, 1, d - 1) EXCEPT ![d - 1].next = @ + 1]
                   /\ rqGot' = rqGot
    /\ UNCHANGED <<regLoading, regExpected, regLast, rqDeps, rqThrows, rqRuns,
                   loadVars, nonRegVars>>

\* the factory that is running throws
FactoryThrows ==
    /\ rqStack # <<>>
    /\ LET top == rqStack[Len(rqStack)]
       IN  /\ top.next > Len(rqDeps[top.name])
           /\ rqRuns[top.name] <= rqThrows[top.name]
    /\ Unwind
    /\ UNCHANGED <<regLoading, regExpected, regLast, rqDeps, rqThrows, loadVars,
                   nonRegVars>>

\* a registry in which some of the modules a and b are registered
RequireInit ==
    /\ \E names \in (SUBSET ModuleNames) \ {{}} :
          regMap = [n \in names |->
                       [assigns |-> Unassigned, exports |-> Undefined,
                        normalized |-> Undefined, initialized |-> FALSE]]
    /\ rqDeps \in [ModuleNames -> DepLists]
    /\ rqThrows \in [ModuleNames -> 0..MaxThrows]
    /\ rqStack = <<>>
    /\ rqRuns = [n \in ModuleNames |-> 0]
    /\ rqGot = <<>>
    /\ regLoading = <<>>
    /\ regExpected = <<>>
    /\ regLast = NoRequire

RequireNext ==
    \/ \E name \in ModuleNames : RequireCall(name)
    \/ FactoryRequires
    \/ FactoryReturns
    \/ FactoryThrows

\* C38: the factory of every module is executed at most once, and all
\* require calls of a name that return give the same exports.
C38_FactoryRunsAtMostOnce ==
    /\ \A n \in ModuleNames : rqRuns[n] <= 1
    /\ \A j, k \in 1..Len(rqGot) :
          (rqGot[j].name = rqGot[k].name /\ ~rqGot[j].threw /\ ~rqGot[k].threw)
          => rqGot[j].value = rqGot[k].value

(***************************************************************************)
(* Specifications: one per component, the other components idle            *)
(***************************************************************************)
ScanIdle ==
    /\ source = <<>>
    /\ cursor = 0
    /\ out = <<>>
    /\ calls = <<>>
    /\ spc = "idle"

BuildIdle ==
    /\ bundle = <<>>
    /\ disambiguate = TRUE
    /\ toIa = FALSE
    /\ mergeCommonNames = FALSE
    /\ mergeCommonPrefixes = NoList
    /\ mergePrefixes = <<>>
    /\ dCalls = <<>>
    /\ callIdx = 0
    /\ count = 0
    /\ usedNames = <<>>
    /\ files = <<>>
    /\ bpc = "idle"

RunIdle ==
    /\ items = 0
    /\ limit2 = 2
    /\ nextIdx = 0
    /\ inflight = {}
    /\ invoked = <<>>
    /\ rwState = "off"

PoolIdle ==
    /\ workerCount = 1
    /\ nextWorkerIdx = 0
    /\ nextTaskId = 1
    /\ tasks = {}
    /\ promise = <<>>
    /\ chain = <<>>
    /\ inbox = <<>>
    /\ port = <<>>
    /\ crash = <<>>
    /\ request = <<>>
    /\ handler = <<>>
    /\ posted = <<>>
    /\ ledger = <<>>
    /\ cause = <<>>

ExportIdle ==
    /\ usePool = FALSE
    /\ epc = "idle"
    /\ wire = <<>>
    /\ report = <<>>
    /\ written = 0

JobsIdle ==
    /\ urls = <<>>
    /\ mergeNames = FALSE
    /\ flat = FALSE
    /\ usedDirs = <<>>
    /\ jobs = <<>>
    /\ jpc = "idle"

HandleIdle ==
    /\ hFiles = <<>>
    /\ hNext = 0
    /\ hBatch = <<>>
    /\ hPosted = <<>>
    /\ hpc = "idle"

LoadIdle ==
    /\ raModules = <<>>
    /\ raNext = 0
    /\ raBefore = {}
    /\ rapc = "idle"

RequireIdle ==
    /\ rqDeps = <<>>
    /\ rqThrows = <<>>
    /\ rqStack = <<>>
    /\ rqRuns = <<>>
    /\ rqGot = <<>>

RegistryIdle ==
    /\ regMap = <<>>
    /\ regLoading = <<>>
    /\ regExpected = <<>>
    /\ regLast = <<>>
    /\ LoadIdle
    /\ RequireIdle

InitScan == ScanInit /\ RunIdle /\ BuildIdle /\ PoolIdle /\ ExportIdle /\ JobsIdle
                /\ HandleIdle /\ RegistryIdle
SpecScan == InitScan /\ [][ScanNext]_vars

InitRun == RunInit /\ ScanIdle /\ BuildIdle /\ PoolIdle /\ ExportIdle /\ JobsIdle
                /\ HandleIdle /\ RegistryIdle
SpecRun == InitRun /\ [][RunNext]_vars

InitBuild == BuildInit /\ ScanIdle /\ RunIdle /\ PoolIdle /\ ExportIdle /\ JobsIdle
                /\ HandleIdle /\ RegistryIdle
SpecBuild == InitBuild /\ [][BuildNext]_vars

InitPool == PoolInit /\ ScanIdle /\ RunIdle /\ BuildIdle /\ ExportIdle /\ JobsIdle
                /\ HandleIdle /\ RegistryIdle
SpecPool == InitPool /\ [][PoolNext]_vars

\* The scheduling the pool relies on: the event loop of the main thread
\* delivers every message and every 'error' event, a worker thread that runs
\* takes the requests posted to it and its handler ends with a terminal
\* message, and a write that was started ends.  Nothing obliges a request
\* to be submitted or a worker to crash.  To keep the graph of the runs
\* small the second request is one whose bundle holds no module.
LivePoolNext == PoolNext /\ request'[2].files = 0

LivePool ==
    /\ InitPool
    /\ [][LivePoolNext]_vars
    /\ \A w \in WorkerIdxs :
          /\ WF_vars(WorkerReceives(w))
          /\ WF_vars(OnWorkerError(w))
          /\ WF_vars(OnMessage(w))
    /\ \A id \in RequestIds :
          /\ WF_vars(HandleCompletes(id)
                     \/ \E j \in 0..(BATCH_SIZE + 1) : HandleThrows(id, j))
          /\ WF_vars(WriteSucceeds(id) \/ WriteFails(id))

InitExport == ExportInit /\ ScanIdle /\ RunIdle /\ PoolIdle /\ JobsIdle
                /\ HandleIdle /\ RegistryIdle
SpecExport == InitExport /\ [][ExportNext]_vars

InitJobs == JobsInit /\ ScanIdle /\ RunIdle /\ BuildIdle /\ PoolIdle /\ ExportIdle
                /\ HandleIdle /\ RegistryIdle
SpecJobs == InitJobs /\ [][JobsNext]_vars

InitRegistry == RegistryInit /\ ScanIdle /\ RunIdle /\ BuildIdle /\ PoolIdle
                /\ ExportIdle /\ JobsIdle /\ HandleIdle /\ LoadIdle /\ RequireIdle
SpecRegistry == InitRegistry /\ [][RegistryNext]_vars

InitLoad == LoadInit /\ ScanIdle /\ RunIdle /\ BuildIdle /\ PoolIdle /\ ExportIdle
                /\ JobsIdle /\ HandleIdle /\ RequireIdle
SpecLoad == InitLoad /\ [][LoadNext]_vars

InitRequire == RequireInit /\ ScanIdle /\ RunIdle /\ BuildIdle /\ PoolIdle
                /\ ExportIdle /\ JobsIdle /\ HandleIdle /\ LoadIdle
SpecRequire == InitRequire /\ [][RequireNext]_vars

InitHandle == HandleInit /\ ScanIdle /\ RunIdle /\ BuildIdle /\ PoolIdle
                /\ ExportIdle /\ JobsIdle /\ RegistryIdle
SpecHandle == InitHandle /\ [][HandleNext]_vars

InitGroup == GroupInit /\ ScanIdle /\ RunIdle /\ PoolIdle /\ ExportIdle /\ JobsIdle
                /\ HandleIdle /\ RegistryIdle
SpecGroup == InitGroup /\ [][BuildNext]_vars

====
